---- MODULE Spec2Model ----
(***************************************************************************)
(* Client-side orchestration layer of the white-label gateway console:     *)
(* the axios transport client (api/client.js), the merchant orchestrator   *)
(* (api/merchants.js), the payment orchestrator (api/payments.js), and the  *)
(* two pages that drive them or the provider endpoint: PaymentForm.jsx and *)
(* Providers.jsx.  One page is mounted at a time (`page`).                 *)
(*                                                                         *)
(* One invocation of an orchestrator function is modelled at a time; every *)
(* `await` is a suspension point, so each async function is a call action  *)
(* followed by one action per awaited request settling.  The requests the  *)
(* invocation puts on the wire are recorded in `requests`, what the caller *)
(* finally receives in `outcome`.                                          *)
(***************************************************************************)
EXTENDS Integers, Sequences, FiniteSets, TLC

VARIABLES
    env,        \* import.meta.env: the VITE_* variables ("" = not set)
    call,       \* the invocation in progress / last finished: [fn, ...arguments]
    pc,         \* position of the async function ("idle" = nothing in flight)
    locals,     \* the async function's local constants assigned so far
    requests,   \* the requests issued by this invocation, in order, with their fate
    outcome,    \* what the caller got: pending, returned(value) or thrown(error)
    page,       \* the route shown: one page component is mounted at a time
    paymentForm,\* PaymentForm: formData, paymentResult, error, loading, handler position
    opened,     \* the URLs handed to window.open, in order
    submits,    \* number of handleSubmit invocations so far
    providers,  \* Providers: currentProvider, availableProviders, loading, error, success
    fetches,    \* the fetch calls of the Providers page, in order, with their fate
    timers,     \* the setTimeout callbacks of the Providers page not yet run, in the
                \* order they were set: each is named by the switch that set it
    providerService, \* the payment service's provider registry and active provider
    caller,     \* the view handler invocation that awaits the invocation in `call`
    parked,     \* the other invocations in flight, each with its own caller
    started,    \* number of handler invocations of the Merchants, Payments or panel page
    merchantsPage, \* Merchants: merchants, loading, error
    paymentsPage,  \* Payments: payments, loading, error, dateFrom, dateTo
    merchantPanel  \* MerchantPanel: the creation form and the dashboard form

orchVars == <<env, call, pc, locals, requests, outcome>>
schedVars == <<caller, parked>>
formVars == <<paymentForm, opened, submits>>
providerVars == <<providers, fetches, timers, providerService>>
listVars == <<merchantsPage, paymentsPage>>
panelVars == <<merchantPanel>>
vars == <<env, call, pc, locals, requests, outcome, page, paymentForm, opened, submits,
          providers, fetches, timers, providerService, caller, parked, started,
          merchantsPage, paymentsPage, merchantPanel>>

-----------------------------------------------------------------------------
(* Bounds of the model *)

\* largest numeric amount (in hundredths) offered to createPayment
MaxAmountCents == 12340

\* number of submissions of the payment form that are followed
MaxSubmits == 2

\* number of handler invocations of the Merchants, the Payments or the
\* MerchantPanel page that are followed
MaxStarted == 2

\* number of fetch calls of the Providers page (registry reads and provider
\* switches together) that are followed
MaxFetches == 3

-----------------------------------------------------------------------------
(* JavaScript values *)

\* a || b on strings: "" (and an unset variable) is falsy
Or(a, b) == IF a = "" THEN b ELSE a

\* typeof nameOrData === 'string' is modelled by the tag t
JsString(s) == [t |-> "string", v |-> s]
JsNumber(n) == [t |-> "number", v |-> n]

DigitChar(d) ==
    CASE d = 0 -> "0" [] d = 1 -> "1" [] d = 2 -> "2" [] d = 3 -> "3"
      [] d = 4 -> "4" [] d = 5 -> "5" [] d = 6 -> "6" [] d = 7 -> "7"
      [] d = 8 -> "8" [] d = 9 -> "9"

RECURSIVE NatToChars(_)
NatToChars(n) ==
    IF n < 10 THEN <<DigitChar(n)>>
    ELSE NatToChars(n \div 10) \o <<DigitChar(n % 10)>>

\* Number.prototype.toString of a number given in hundredths: the shortest
\* decimal that reads back as the same number (no trailing zeros, no
\* trailing point, a leading "-" for negatives).
NumberToChars(c) ==
    LET a    == IF c < 0 THEN 0 - c ELSE c
        sign == IF c < 0 THEN <<"-">> ELSE <<>>
        ip   == NatToChars(a \div 100)
        fr   == a % 100
    IN  sign \o ip \o
        (IF fr = 0 THEN <<>>
         ELSE IF fr % 10 = 0 THEN <<".", DigitChar(fr \div 10)>>
         ELSE <<".", DigitChar(fr \div 10), DigitChar(fr % 10)>>)

\* String(x): a string is returned as it is, a number is formatted.
\* Strings that take part in formatting are sequences of characters.
String(x) ==
    IF x.t = "string" THEN x ELSE JsString(NumberToChars(x.v))

Null == [t |-> "null"]
JsObject(o) == [t |-> "object", v |-> o]

\* s.startsWith(p) on strings held as sequences of characters
StartsWith(s, p) == Len(s) >= Len(p) /\ SubSeq(s, 1, Len(p)) = p

\* the characters of the base addresses that are spliced into URLs
Chars(s) ==
    CASE s = "http://localhost:8000" -> <<"h", "t", "t", "p", ":", "/", "/", "l", "o", "c", "a", "l", "h", "o", "s", "t", ":", "8", "0", "0", "0">>
      [] s = "https://gw.example" -> <<"h", "t", "t", "p", "s", ":", "/", "/", "g", "w", ".", "e", "x", "a", "m", "p", "l", "e">>

-----------------------------------------------------------------------------
(* Configuration read from the environment *)

EnvChoices ==
    [VITE_API_BASE_URL         : {"", "https://gw.example"},
     VITE_MERCHANT_SERVICE_URL : {"", "https://merchants.example"},
     VITE_PAYMENT_SERVICE_URL  : {"", "https://payments.example"}]

\* client.js line 4, payments.js `gatewayUrl`
API_BASE_URL == Or(env.VITE_API_BASE_URL, "http://localhost:8000")
\* `merchantServiceUrl` of merchants.js and payments.js
MerchantServiceUrl == Or(env.VITE_MERCHANT_SERVICE_URL, "http://localhost:8001")
\* `paymentServiceUrl` of merchants.js and payments.js
PaymentServiceUrl == Or(env.VITE_PAYMENT_SERVICE_URL, "http://localhost:8002")

-----------------------------------------------------------------------------
(* Transport client *)

\* axios.create({baseURL, headers})
ClientDefaults ==
    [baseURL |-> API_BASE_URL,
     headers |-> [h \in {"Content-Type"} |-> "application/json"]]

\* an interceptor that sets the header and leaves apiKey in the config
InterceptorKeepsApiKey(config) ==
    IF "apiKey" \in DOMAIN config /\ config.apiKey # ""
    THEN [k \in DOMAIN config |->
            IF k = "headers"
            THEN [h \in DOMAIN config.headers \cup {"X-API-Key"} |->
                    IF h = "X-API-Key" THEN config.apiKey ELSE config.headers[h]]
            ELSE config[k]]
    ELSE config

\* the request interceptor: a truthy config.apiKey moves into the X-API-Key header
Interceptor(config) ==
    IF "apiKey" \in DOMAIN config /\ config.apiKey # ""
    THEN [k \in DOMAIN config \ {"apiKey"} |->
            IF k = "headers"
            THEN [h \in DOMAIN config.headers \cup {"X-API-Key"} |->
                    IF h = "X-API-Key" THEN config.apiKey ELSE config.headers[h]]
            ELSE config[k]]
    ELSE config

\* apiClient.get(url, config): the call's config over the instance defaults
Get(url, config) ==
    [method |-> "GET", url |-> url] @@ config @@ ClientDefaults

\* apiClient.post(url, data, config)
Post(url, data, config) ==
    [method |-> "POST", url |-> url, data |-> data] @@ config @@ ClientDefaults

\* apiClient.patch(url, data, config)
Patch(url, data, config) ==
    [method |-> "PATCH", url |-> url, data |-> data] @@ config @@ ClientDefaults

\* the request is dispatched: the config passes the request interceptor and
\* what comes out goes on the wire (req), not yet answered
Issue(config) == [config |-> config, req |-> Interceptor(config), state |-> "pending"]

\* the awaited request (always the last one issued) settles with `resp`
Settle(resp) ==
    [requests EXCEPT ![Len(requests)] =
        [config |-> @.config, req |-> @.req,
         state |-> IF resp.ok THEN "ok" ELSE "err", resp |-> resp]]

Awaited == requests[Len(requests)].req

Pending == [kind |-> "pending"]
Returned(v) == [kind |-> "returned", value |-> v]
Thrown(e) == [kind |-> "thrown", error |-> e]

NoLocals == [x \in {} |-> ""]

-----------------------------------------------------------------------------
(* The backend services, seen from the client: what a request may be       *)
(* answered with.  Any request may fail; a request that is served is       *)
(* answered from the request itself (its path, header and body).           *)

Credentials == {"key-A", "key-B"}

\* GET /api/v1/merchants/me: the merchant owning a credential
Owner(k) ==
    IF k = "key-A"
    THEN [id |-> "m-A", name |-> "Alpha", api_keys |-> <<"key-A">>]
    ELSE [id |-> "m-B", name |-> "Beta", api_keys |-> <<"key-B", "key-B2">>]

MerchantIds == {Owner(k).id : k \in Credentials}

\* GET /api/v1/payments/by-merchant/{id}: that merchant's payments, in order
PaymentsOf(id) ==
    IF id = "m-A"
    THEN <<[id |-> "p-1", merchant_id |-> "m-A", status |-> "succeeded"],
           [id |-> "p-2", merchant_id |-> "m-A", status |-> "failed"]>>
    ELSE <<[id |-> "p-3", merchant_id |-> "m-B", status |-> "processing"]>>

\* GET /api/v1/dashboard: the rendered dashboard of the credential's merchant
DashboardHtml(k) == IF k = "key-A" THEN "<html>Alpha</html>" ELSE "<html>Beta</html>"

\* the same dashboard rendered after the merchant's figures have changed
LaterDashboardHtml(k) == DashboardHtml(k) \o "<!-- updated -->"

\* error.response?.status (0: no response was received) and error.code
HttpError(s, c, d) == [status |-> s, code |-> c, detail |-> d]

Failures ==
    {HttpError(400, "ERR_BAD_REQUEST", "bad request"),
     HttpError(404, "ERR_BAD_REQUEST", "Not Found"),
     HttpError(422, "ERR_BAD_REQUEST", "validation failed"),
     HttpError(500, "ERR_BAD_RESPONSE", "internal error"),
     HttpError(0, "ECONNREFUSED", ""),
     HttpError(0, "ECONNABORTED", "")}

OkResponse(d) == [ok |-> TRUE, status |-> 200, data |-> d]
ErrResponse(e) == [ok |-> FALSE, error |-> e]

ApiKeyOf(req) ==
    IF "X-API-Key" \in DOMAIN req.headers THEN req.headers["X-API-Key"] ELSE ""

ByMerchantPath(id) == "/api/v1/payments/by-merchant/" \o id

\* next_action_url as a backend may supply it: root-relative or absolute
RelativeChallengeUrl == <<"/", "m", "o", "c", "k", "-", "3", "d", "s", "?", "t", "o", "k", "e", "n", "=", "a", "b", "c">>
AbsoluteChallengeUrl == <<"h", "t", "t", "p", "s", ":", "/", "/", "e", "x", "t", ".", "e", "x", "a", "m", "p", "l", "e", "/", "x">>
PlainHttpChallengeUrl == <<"h", "t", "t", "p", ":", "/", "/", "3", "d", "s", ".", "e", "x", "a", "m", "p", "l", "e", "/", "c">>
HttpNamedPathUrl == <<"/", "h", "t", "t", "p", "-", "3", "d", "s">>

ChallengeUrls ==
    {RelativeChallengeUrl, AbsoluteChallengeUrl, PlainHttpChallengeUrl, HttpNamedPathUrl}

\* a next_action_url that no URL parser accepts: its host opens an IPv6
\* literal and never closes it
MalformedChallengeUrl == <<"h", "t", "t", "p", ":", "/", "/", "[", "3", "d", "s">>

\* the created payment, as the gateway may report it: settled, or requiring a
\* challenge (with or without a URL for it)
CreatedPayments(body) ==
    LET made(st, ra, url) ==
            [id |-> "p-new", merchant_id |-> body.merchant_id, amount |-> body.amount,
             currency |-> body.currency, payment_method |-> body.payment_method,
             status |-> st, requires_action |-> ra, next_action_url |-> url]
    IN  {made("succeeded", FALSE, <<>>), made("processing", FALSE, RelativeChallengeUrl),
         made("requires_action", TRUE, <<>>)}
        \cup {made("requires_action", TRUE, u) : u \in ChallengeUrls \cup {MalformedChallengeUrl}}

\* the bodies a served request may be answered with
ServedData(req) ==
    CASE req.method = "POST" /\ req.url = "/api/v1/merchants" ->
            {[id |-> "m-new", name |-> req.data.name, api_keys |-> keys] :
                keys \in {<<"key-new">>, <<>>}}
      [] req.method = "GET" /\ req.url = "/api/v1/dashboard" ->
            IF ApiKeyOf(req) \in Credentials
            THEN {DashboardHtml(ApiKeyOf(req)), LaterDashboardHtml(ApiKeyOf(req))}
            ELSE {}
      [] req.method = "GET" /\ req.url = "/api/v1/merchants/me" ->
            IF ApiKeyOf(req) \in Credentials THEN {Owner(ApiKeyOf(req))} ELSE {}
      [] req.method = "POST" /\ req.url = "/v1/payments" ->
            IF ApiKeyOf(req) \in Credentials THEN CreatedPayments(req.data) ELSE {}
      [] req.method = "GET" /\ req.url = "/api/v1/merchants/all" ->
            {<<Owner("key-A"), Owner("key-B")>>}
      [] req.method = "PATCH" /\ req.url = "/api/v1/merchants/me" ->
            IF ApiKeyOf(req) \in Credentials
            THEN {req.data @@ Owner(ApiKeyOf(req))}
            ELSE {}
      [] req.method = "GET" /\ req.url = "/api/v1/payments/all" ->
            {PaymentsOf("m-A") \o PaymentsOf("m-B"), <<>>}
      [] OTHER ->
            {PaymentsOf(id) : id \in {m \in MerchantIds : req.url = ByMerchantPath(m)}}

Answers(req) ==
    {OkResponse(d) : d \in ServedData(req)} \cup {ErrResponse(e) : e \in Failures}

-----------------------------------------------------------------------------
(* Merchant orchestrator: createMerchant *)

MerchantInputs ==
    {JsString("Demo Shop"), JsString("Other"),
     [t |-> "object", v |-> [name |-> "Demo Shop", logo_url |-> "https://cdn.example/l.png"]],
     [t |-> "object", v |-> [name |-> "Branded", primary_color |-> "#ff0000"]]}

\* typeof nameOrData === 'string' ? { name: nameOrData } : nameOrData
MerchantData(nameOrData) ==
    IF nameOrData.t = "string" THEN [name |-> nameOrData.v] ELSE nameOrData.v

\* the base address of the first attempt (merchants.js, try block)
CreateMerchantFirstBase == MerchantServiceUrl

\* the base address of the second attempt (merchants.js, catch block)
CreateMerchantFallbackBase == MerchantServiceUrl

\* a retry predicate that also retries on server errors
IsRoutingFailureAnyServerError(e) == e.status >= 404 \/ e.code = "ECONNREFUSED"

\* error.response?.status === 404 || error.code === 'ECONNREFUSED'
IsRoutingFailure(e) == e.status = 404 \/ e.code = "ECONNREFUSED"

\* createMerchant is called: everything up to the first await
CreateMerchant(nameOrData) ==
    /\ call' = [fn |-> "createMerchant", nameOrData |-> nameOrData]
    /\ locals' = [merchantServiceUrl |-> CreateMerchantFirstBase,
                  merchantData |-> MerchantData(nameOrData)]
    /\ requests' = <<Issue(Post("/api/v1/merchants", MerchantData(nameOrData),
                                   [baseURL |-> CreateMerchantFirstBase]))>>
    /\ outcome' = Pending
    /\ pc' = "createMerchant:first"
    /\ UNCHANGED env

\* what the catch block does with the first attempt's error
CreateMerchantCatch(e) ==
    IF IsRoutingFailure(e)
    THEN /\ locals' = [merchantServiceUrl |-> CreateMerchantFallbackBase,
                       merchantData |-> MerchantData(call.nameOrData)]
         /\ requests' = Append(Settle(ErrResponse(e)),
                               Issue(Post("/api/v1/merchants", MerchantData(call.nameOrData),
                                             [baseURL |-> CreateMerchantFallbackBase])))
         /\ pc' = "createMerchant:fallback"
         /\ outcome' = outcome
    ELSE /\ requests' = Settle(ErrResponse(e))
         /\ pc' = "idle"
         /\ outcome' = Thrown(e)
         /\ locals' = locals

\* the first POST settles
CreateMerchantFirstSettles ==
    /\ pc = "createMerchant:first"
    /\ \E resp \in Answers(Awaited) :
          \/ /\ resp.ok
             /\ requests' = Settle(resp)
             /\ outcome' = Returned(resp.data)
             /\ pc' = "idle"
             /\ locals' = locals
          \/ /\ ~resp.ok
             /\ CreateMerchantCatch(resp.error)
    /\ UNCHANGED <<env, call>>

\* a fallback that is itself retried on a routing failure
CreateMerchantFallbackSettlesRetrying ==
    /\ pc = "createMerchant:fallback"
    /\ \E resp \in Answers(Awaited) :
          IF ~resp.ok /\ (resp.error.status = 404 \/ resp.error.code = "ECONNREFUSED")
          THEN /\ requests' = Append(Settle(resp),
                        Issue(Awaited))
               /\ UNCHANGED <<outcome, pc>>
          ELSE /\ requests' = Settle(resp)
               /\ outcome' = IF resp.ok THEN Returned(resp.data) ELSE Thrown(resp.error)
               /\ pc' = "idle"
    /\ UNCHANGED <<env, call, locals>>

\* the POST issued by the catch block settles; it is awaited outside any try
CreateMerchantFallbackSettles ==
    /\ pc = "createMerchant:fallback"
    /\ \E resp \in Answers(Awaited) :
          /\ requests' = Settle(resp)
          /\ outcome' = IF resp.ok THEN Returned(resp.data) ELSE Thrown(resp.error)
    /\ pc' = "idle"
    /\ UNCHANGED <<env, call, locals>>

-----------------------------------------------------------------------------
(* Merchant orchestrator: getDashboard *)

DashboardKeys == {"key-A", "key-B", "key-X", ""}

\* a merchant id that does not come from step (b)
DashboardMerchantIdStale(merchantInfo) == "m-A"

\* the merchant id the payments are listed for: merchantInfo.data.id
DashboardMerchantId(merchantInfo) == merchantInfo.data.id

\* the object getDashboard returns
DashboardView(merchantInfo, paymentsResponse, dashboardResponse) ==
    [merchant |-> merchantInfo.data,
     payments |-> paymentsResponse.data,
     dashboardHtml |-> dashboardResponse.data]

\* steps (a) and (b) started together, as Promise.all would
GetDashboardParallel(apiKey) ==
    /\ call' = [fn |-> "getDashboard", apiKey |-> apiKey]
    /\ locals' = [merchantServiceUrl |-> MerchantServiceUrl]
    /\ requests' = <<Issue(Get("/api/v1/dashboard",
                                  [apiKey |-> apiKey, baseURL |-> MerchantServiceUrl])),
                     Issue(Get("/api/v1/merchants/me",
                                  [apiKey |-> apiKey, baseURL |-> MerchantServiceUrl]))>>
    /\ outcome' = Pending
    /\ pc' = "getDashboard:me"
    /\ UNCHANGED env

\* a getDashboard that remembers the view it returned last and hands it out
\* again when it is asked for the same credential
GetDashboardCached(apiKey) ==
    IF call = [fn |-> "getDashboard", apiKey |-> apiKey] /\ pc = "idle"
                                                         /\ outcome.kind = "returned"
    THEN UNCHANGED <<env, call, locals, requests, outcome, pc>>
    ELSE /\ call' = [fn |-> "getDashboard", apiKey |-> apiKey]
         /\ locals' = [merchantServiceUrl |-> MerchantServiceUrl]
         /\ requests' = <<Issue(Get("/api/v1/dashboard",
                                       [apiKey |-> apiKey, baseURL |-> MerchantServiceUrl]))>>
         /\ outcome' = Pending
         /\ pc' = "getDashboard:dashboard"
         /\ UNCHANGED env

\* getDashboard is called: step (a) is issued
GetDashboard(apiKey) ==
    /\ call' = [fn |-> "getDashboard", apiKey |-> apiKey]
    /\ locals' = [merchantServiceUrl |-> MerchantServiceUrl]
    /\ requests' = <<Issue(Get("/api/v1/dashboard",
                                  [apiKey |-> apiKey, baseURL |-> MerchantServiceUrl]))>>
    /\ outcome' = Pending
    /\ pc' = "getDashboard:dashboard"
    /\ UNCHANGED env

\* step (a) settles: on success step (b) is issued, a failure is rethrown
GetDashboardHtmlSettles ==
    /\ pc = "getDashboard:dashboard"
    /\ \E resp \in Answers(Awaited) :
          \/ /\ resp.ok
             /\ locals' = [dashboardResponse |-> resp] @@ locals
             /\ requests' = Append(Settle(resp),
                    Issue(Get("/api/v1/merchants/me",
                                 [apiKey |-> call.apiKey, baseURL |-> locals.merchantServiceUrl])))
             /\ pc' = "getDashboard:me"
             /\ outcome' = outcome
          \/ /\ ~resp.ok
             /\ requests' = Settle(resp)
             /\ outcome' = Thrown(resp.error)
             /\ pc' = "idle"
             /\ locals' = locals
    /\ UNCHANGED <<env, call>>

\* step (b) settles: on success step (c) is issued for merchantInfo.data.id
GetDashboardMeSettles ==
    /\ pc = "getDashboard:me"
    /\ \E resp \in Answers(Awaited) :
          \/ /\ resp.ok
             /\ locals' = [merchantInfo |-> resp,
                           merchantId |-> DashboardMerchantId(resp),
                           paymentServiceUrl |-> PaymentServiceUrl] @@ locals
             /\ requests' = Append(Settle(resp),
                    Issue(Get(ByMerchantPath(DashboardMerchantId(resp)),
                                 [baseURL |-> PaymentServiceUrl])))
             /\ pc' = "getDashboard:payments"
             /\ outcome' = outcome
          \/ /\ ~resp.ok
             /\ requests' = Settle(resp)
             /\ outcome' = Thrown(resp.error)
             /\ pc' = "idle"
             /\ locals' = locals
    /\ UNCHANGED <<env, call>>

\* a lenient step (c): a failed listing yields a view without payments
GetDashboardPaymentsSettlesLenient ==
    /\ pc = "getDashboard:payments"
    /\ \E resp \in Answers(Awaited) :
          /\ requests' = Settle(resp)
          /\ outcome' = Returned([merchant |-> locals.merchantInfo.data,
                                  payments |-> IF resp.ok THEN resp.data ELSE <<>>,
                                  dashboardHtml |-> locals.dashboardResponse.data])
    /\ pc' = "idle"
    /\ UNCHANGED <<env, call, locals>>

\* step (c) settles: the view is composed and returned, a failure is rethrown
GetDashboardPaymentsSettles ==
    /\ pc = "getDashboard:payments"
    /\ \E resp \in Answers(Awaited) :
          /\ requests' = Settle(resp)
          /\ outcome' = IF resp.ok
                        THEN Returned(DashboardView(locals.merchantInfo, resp,
                                                    locals.dashboardResponse))
                        ELSE Thrown(resp.error)
    /\ pc' = "idle"
    /\ UNCHANGED <<env, call, locals>>

-----------------------------------------------------------------------------
(* Payment orchestrator: createPayment *)

PaymentKeys == {"key-A", "key-B", "key-X"}

\* amounts as the form or a script may supply them: numbers (in hundredths)
\* and strings
Amounts ==
    {JsNumber(c) : c \in {0, 5, 0 - 250, 1050, 10000, MaxAmountCents}}
    \cup {JsString(<<"1", "0", "0", ".", "0", "0">>), JsString(<<>>)}

\* every amount without a method tag, and every method tag (also the empty
\* one) with two currencies and descriptions
PaymentInputs ==
    {[amount |-> a, currency |-> "RUB", description |-> "Order #1"] : a \in Amounts}
    \cup {[amount |-> a, currency |-> c.currency, description |-> c.description,
           payment_method |-> m] :
             a \in {JsNumber(1050), JsString(<<"1", "0", "0", ".", "0", "0">>)},
             c \in {[currency |-> "RUB", description |-> "Order #1"],
                    [currency |-> "USD", description |-> ""]},
             m \in {"", "card", "sbp"}}

\* a method that is always the default
PaymentMethodAlwaysCard(paymentData) == "card"

\* paymentData.payment_method || 'card' (a missing property reads as undefined)
PaymentMethod(paymentData) ==
    Or(IF "payment_method" \in DOMAIN paymentData THEN paymentData.payment_method ELSE "",
       "card")

\* the amount passed on as supplied, without String()
BodyAmountRaw(paymentData) == paymentData.amount

\* the amount put into the body: String(paymentData.amount)
BodyAmount(paymentData) == String(paymentData.amount)

\* the body of POST /v1/payments
PaymentBody(merchantId, paymentData) ==
    [merchant_id |-> merchantId,
     amount |-> BodyAmount(paymentData),
     currency |-> paymentData.currency,
     description |-> paymentData.description,
     payment_method |-> PaymentMethod(paymentData)]

\* the merchant's name taken for its id
PaymentMerchantIdFromName(merchantResponse) == merchantResponse.data.name

\* the merchant id put into the body: merchantResponse.data.id
PaymentMerchantId(merchantResponse) == merchantResponse.data.id

\* createPayment is called: step 1 (resolve the merchant) is issued
CreatePayment(apiKey, paymentData) ==
    /\ call' = [fn |-> "createPayment", apiKey |-> apiKey, paymentData |-> paymentData]
    /\ locals' = [gatewayUrl |-> API_BASE_URL, merchantServiceUrl |-> MerchantServiceUrl]
    /\ requests' = <<Issue(Get("/api/v1/merchants/me",
                                  [apiKey |-> apiKey, baseURL |-> MerchantServiceUrl]))>>
    /\ outcome' = Pending
    /\ pc' = "createPayment:me"
    /\ UNCHANGED env

\* step 1 settles: on success the payment is posted to the gateway
CreatePaymentMeSettles ==
    /\ pc = "createPayment:me"
    /\ \E resp \in Answers(Awaited) :
          \/ /\ resp.ok
             /\ locals' = [merchantResponse |-> resp,
                           merchantId |-> PaymentMerchantId(resp)] @@ locals
             /\ requests' = Append(Settle(resp),
                    Issue(Post("/v1/payments",
                                  PaymentBody(PaymentMerchantId(resp), call.paymentData),
                                  [apiKey |-> call.apiKey, baseURL |-> locals.gatewayUrl])))
             /\ pc' = "createPayment:post"
             /\ outcome' = outcome
          \/ /\ ~resp.ok
             /\ requests' = Settle(resp)
             /\ outcome' = Thrown(resp.error)
             /\ pc' = "idle"
             /\ locals' = locals
    /\ UNCHANGED <<env, call>>

\* step 2 settles: the created payment is returned, a failure is rethrown
CreatePaymentPostSettles ==
    /\ pc = "createPayment:post"
    /\ \E resp \in Answers(Awaited) :
          /\ requests' = Settle(resp)
          /\ outcome' = IF resp.ok THEN Returned(resp.data) ELSE Thrown(resp.error)
    /\ pc' = "idle"
    /\ UNCHANGED <<env, call, locals>>

-----------------------------------------------------------------------------
(* Merchant orchestrator: getAllMerchants, updateMerchant *)

\* getAllMerchants is called: its one request is issued
GetAllMerchants ==
    /\ call' = [fn |-> "getAllMerchants"]
    /\ locals' = [merchantServiceUrl |-> MerchantServiceUrl]
    /\ requests' = <<Issue(Get("/api/v1/merchants/all", [baseURL |-> MerchantServiceUrl]))>>
    /\ outcome' = Pending
    /\ pc' = "getAllMerchants:all"
    /\ UNCHANGED env

\* a listing that asks once more when the address was not reachable
GetAllMerchantsSettlesRetrying ==
    /\ pc = "getAllMerchants:all"
    /\ \E resp \in Answers(Awaited) :
          IF ~resp.ok /\ IsRoutingFailure(resp.error) /\ Len(requests) = 1
          THEN /\ requests' = Append(Settle(resp), Issue(requests[Len(requests)].config))
               /\ outcome' = outcome
               /\ pc' = pc
          ELSE /\ requests' = Settle(resp)
               /\ outcome' = IF resp.ok THEN Returned(resp.data) ELSE Thrown(resp.error)
               /\ pc' = "idle"
    /\ UNCHANGED <<env, call, locals>>

\* the listing settles: response.data is returned, a failure is rethrown
GetAllMerchantsSettles ==
    /\ pc = "getAllMerchants:all"
    /\ \E resp \in Answers(Awaited) :
          /\ requests' = Settle(resp)
          /\ outcome' = IF resp.ok THEN Returned(resp.data) ELSE Thrown(resp.error)
    /\ pc' = "idle"
    /\ UNCHANGED <<env, call, locals>>

UpdateInputs ==
    {[logo_url |-> "https://cdn.example/new.png"],
     [primary_color |-> "#00ff00", background_color |-> "#ffffff"]}

\* updateMerchant is called: its one request is issued
UpdateMerchant(apiKey, updateData) ==
    /\ call' = [fn |-> "updateMerchant", apiKey |-> apiKey, updateData |-> updateData]
    /\ locals' = [merchantServiceUrl |-> MerchantServiceUrl]
    /\ requests' = <<Issue(Patch("/api/v1/merchants/me", updateData,
                                    [apiKey |-> apiKey, baseURL |-> MerchantServiceUrl]))>>
    /\ outcome' = Pending
    /\ pc' = "updateMerchant:patch"
    /\ UNCHANGED env

\* the update settles: response.data is returned, a failure is rethrown
UpdateMerchantSettles ==
    /\ pc = "updateMerchant:patch"
    /\ \E resp \in Answers(Awaited) :
          /\ requests' = Settle(resp)
          /\ outcome' = IF resp.ok THEN Returned(resp.data) ELSE Thrown(resp.error)
    /\ pc' = "idle"
    /\ UNCHANGED <<env, call, locals>>

-----------------------------------------------------------------------------
(* Payment orchestrator: getAllPayments *)

DateRanges ==
    {[dateFrom |-> "2026-01-01", dateTo |-> "2026-01-31"],
     [dateFrom |-> "2026-02-01", dateTo |-> "2026-02-01"]}

\* getAllPayments is called: its one request is issued
GetAllPayments(dateFrom, dateTo) ==
    /\ call' = [fn |-> "getAllPayments", dateFrom |-> dateFrom, dateTo |-> dateTo]
    /\ locals' = [paymentServiceUrl |-> PaymentServiceUrl]
    /\ requests' = <<Issue(Get("/api/v1/payments/all",
                                  [baseURL |-> PaymentServiceUrl,
                                   params |-> [date_from |-> dateFrom, date_to |-> dateTo]]))>>
    /\ outcome' = Pending
    /\ pc' = "getAllPayments:all"
    /\ UNCHANGED env

\* a listing that answers a failure with an empty list
GetAllPaymentsSettlesSwallowing ==
    /\ pc = "getAllPayments:all"
    /\ \E resp \in Answers(Awaited) :
          /\ requests' = Settle(resp)
          /\ outcome' = IF resp.ok THEN Returned(resp.data) ELSE Returned(<<>>)
    /\ pc' = "idle"
    /\ UNCHANGED <<env, call, locals>>

\* the listing settles: response.data is returned, a failure is rethrown
GetAllPaymentsSettles ==
    /\ pc = "getAllPayments:all"
    /\ \E resp \in Answers(Awaited) :
          /\ requests' = Settle(resp)
          /\ outcome' = IF resp.ok THEN Returned(resp.data) ELSE Thrown(resp.error)
    /\ pc' = "idle"
    /\ UNCHANGED <<env, call, locals>>

-----------------------------------------------------------------------------
(* Invocations in flight side by side.  A view handler calls an            *)
(* orchestrator function and awaits it; nothing stops the operator from    *)
(* starting another handler meanwhile.  `call`, `pc`, `locals`, `requests` *)
(* and `outcome` describe the invocation whose step is taken next, and     *)
(* `parked` holds the others.                                              *)

\* the n-th invocation of a view handler awaits the orchestrator function
AwaitedBy(handler, n) == [handler |-> handler, n |-> n]
NoCaller == AwaitedBy("none", 0)

Active ==
    [call |-> call, pc |-> pc, locals |-> locals, requests |-> requests,
     outcome |-> outcome, caller |-> caller]

\* an invocation that still has steps to take or a handler waiting for it
Live(c) == c.pc # "idle" \/ c.caller # NoCaller

\* `parked` once a new invocation takes the place of the active one
ParkActive == IF Live(Active) THEN Append(parked, Active) ELSE parked

RemoveAt(seq, i) == SubSeq(seq, 1, i - 1) \o SubSeq(seq, i + 1, Len(seq))

\* the event loop turns to another invocation in flight
Schedule(i) ==
    /\ i \in DOMAIN parked
    /\ call' = parked[i].call
    /\ pc' = parked[i].pc
    /\ locals' = parked[i].locals
    /\ requests' = parked[i].requests
    /\ outcome' = parked[i].outcome
    /\ caller' = parked[i].caller
    /\ parked' = IF Live(Active) THEN [parked EXCEPT ![i] = Active]
                 ELSE RemoveAt(parked, i)
    /\ UNCHANGED <<env, page, formVars, providerVars, started, listVars, panelVars>>

-----------------------------------------------------------------------------
(* PaymentForm: handleChange, handleSubmit and the rendered challenge link *)

\* err.message of an axios error
AxiosMessage(e) ==
    IF e.status # 0 THEN "Request failed with status code " \o ToString(e.status)
    ELSE IF e.code = "ECONNABORTED" THEN "timeout exceeded"
    ELSE "Network Error"

\* err.response?.data?.detail || err.message || fallback
ViewErrorMessage(e, fallback) == Or(e.detail, Or(AxiosMessage(e), fallback))

\* err.response?.data?.detail || err.message || <default text>
FormErrorMessage(e) == Or(e.detail, Or(AxiosMessage(e), "payment creation failed"))

\* import.meta.env.VITE_API_BASE_URL || 'http://localhost:8000', as characters
GatewayUrlChars == Chars(Or(env.VITE_API_BASE_URL, "http://localhost:8000"))

HttpPrefix == <<"h", "t", "t", "p">>

\* a fullUrl that always gets the gateway address in front
SubmitChallengeUrlAlwaysPrefixed(result) == GatewayUrlChars \o result.next_action_url

\* handleSubmit: fullUrl, the URL handed to window.open
SubmitChallengeUrl(result) ==
    IF StartsWith(result.next_action_url, HttpPrefix)
    THEN result.next_action_url
    ELSE GatewayUrlChars \o result.next_action_url

\* an href that is the backend's URL as supplied
LinkChallengeUrlRaw(paymentResult) == paymentResult.next_action_url

\* the render: href of the 'open the 3DS page' link
LinkChallengeUrl(paymentResult) ==
    IF StartsWith(paymentResult.next_action_url, HttpPrefix)
    THEN paymentResult.next_action_url
    ELSE GatewayUrlChars \o paymentResult.next_action_url

\* window.open(url, ...) throws a SyntaxError when url does not parse; of the
\* parser's rules the one followed here is that a "[" in the URL has its "]"
WindowOpenThrows(url) ==
    \E i \in DOMAIN url : url[i] = "[" /\ \A j \in DOMAIN url : j > i => url[j] # "]"

\* err.message of that SyntaxError
WindowOpenMessage == "Unable to open a window with invalid URL"

\* a condition that looks at the URL alone
OpensChallengeAnyUrl(result) == result.next_action_url # <<>>

\* handleSubmit: result.requires_action && result.next_action_url
OpensChallenge(result) == result.requires_action /\ result.next_action_url # <<>>

\* the render: whether the challenge link is shown, and where it points
ChallengeLink ==
    IF /\ paymentForm.paymentResult # Null
       /\ paymentForm.paymentResult.v.requires_action
       /\ paymentForm.paymentResult.v.next_action_url # <<>>
    THEN [shown |-> TRUE, href |-> LinkChallengeUrl(paymentForm.paymentResult.v)]
    ELSE [shown |-> FALSE]

InitialPaymentForm ==
    [formData |-> [apiKey |-> "", amount |-> <<>>, currency |-> "RUB",
                   description |-> "", payment_method |-> "card"],
     paymentResult |-> Null,
     error |-> Null,
     loading |-> FALSE,
     handleSubmit |-> "idle"]

\* what the operator types or selects
FieldEdits ==
    {[name |-> "apiKey", value |-> "key-A"],
     [name |-> "apiKey", value |-> "key-X"],
     [name |-> "amount", value |-> <<"1", "0", "0", ".", "0", "0">>]}

\* handleChange: one field of formData is replaced
HandleChange(name, value) ==
    /\ page = "payment-form"
    /\ paymentForm.formData[name] # value
    /\ paymentForm' = [paymentForm EXCEPT !.formData[name] = value]
    /\ UNCHANGED <<orchVars, schedVars, started, page, opened, submits, providerVars,
                   listVars, panelVars>>

\* a submit button that stays open while a submission is running
SubmitEnabledWhileLoading(form) == TRUE

\* <button type="submit" disabled={loading}>
SubmitEnabled(form) == ~form.loading

\* the form is submitted (the button is disabled while loading, apiKey and
\* amount are required): state is reset and createPayment is called
HandleSubmit ==
    /\ page = "payment-form"
    /\ SubmitEnabled(paymentForm)
    /\ paymentForm.formData.apiKey # "" /\ paymentForm.formData.amount # <<>>
    /\ submits < MaxSubmits
    /\ paymentForm' = [paymentForm EXCEPT !.error = Null, !.paymentResult = Null,
                                          !.loading = TRUE, !.handleSubmit = "awaiting"]
    /\ CreatePayment(paymentForm.formData.apiKey,
                     [amount |-> JsString(paymentForm.formData.amount),
                      currency |-> paymentForm.formData.currency,
                      description |-> paymentForm.formData.description,
                      payment_method |-> paymentForm.formData.payment_method])
    /\ submits' = submits + 1
    /\ caller' = AwaitedBy("handleSubmit", submits + 1)
    /\ parked' = ParkActive
    /\ UNCHANGED <<page, opened, providerVars, started, listVars, panelVars>>

\* createPayment has settled and handleSubmit resumes: the result is stored
\* and its challenge page opened, or the error is stored; loading ends
HandleSubmitResumes ==
    /\ paymentForm.handleSubmit = "awaiting"
    /\ caller.handler = "handleSubmit"
    /\ pc = "idle"
    /\ \/ /\ outcome.kind = "returned"
          /\ paymentForm' =
                IF OpensChallenge(outcome.value)
                   /\ WindowOpenThrows(SubmitChallengeUrl(outcome.value))
                THEN [paymentForm EXCEPT !.paymentResult = JsObject(outcome.value),
                                         !.error = JsString(Or(WindowOpenMessage,
                                                               "payment creation failed")),
                                         !.loading = FALSE, !.handleSubmit = "idle"]
                ELSE [paymentForm EXCEPT !.paymentResult = JsObject(outcome.value),
                                         !.loading = FALSE, !.handleSubmit = "idle"]
          /\ opened' = IF OpensChallenge(outcome.value)
                       THEN Append(opened, SubmitChallengeUrl(outcome.value))
                       ELSE opened
       \/ /\ outcome.kind = "thrown"
          /\ paymentForm' = [paymentForm EXCEPT
                                !.error = JsString(FormErrorMessage(outcome.error)),
                                !.loading = FALSE, !.handleSubmit = "idle"]
          /\ opened' = opened
    /\ caller' = NoCaller
    /\ UNCHANGED <<orchVars, parked, started, page, submits, providerVars,
                   listVars, panelVars>>

-----------------------------------------------------------------------------
(* Providers.jsx: the page reads the provider registry once when mounted  *)
(* and switches the active provider with one PUT per click.  Both go      *)
(* through fetch, not through the axios client.                           *)

EmptyObject == [k \in {} |-> ""]

\* the payment service's registry: provider key -> description
FullRegistry ==
    [k \in {"mock_success", "mock_failed", "mock_3ds"} |->
        CASE k = "mock_success" -> "always succeeds"
          [] k = "mock_failed" -> "always fails"
          [] k = "mock_3ds" -> "asks for 3DS"]

InitialProviderService ==
    [current_provider |-> "mock_success", available_providers |-> FullRegistry]

\* how a fetch can end without an answer of the provider endpoint: the
\* promise rejects (connection refused, or the answer is lost on its way),
\* or another server answers in its place with 404 or with 502 (the latter
\* with a body that is not JSON)
FetchFailures ==
    {[kind |-> "rejected", message |-> "Failed to fetch"],
     [kind |-> "response", ok |-> FALSE, status |-> 404,
      json |-> JsObject([detail |-> "Not Found"])],
     [kind |-> "response", ok |-> FALSE, status |-> 502, json |-> Null]}

\* the answer of GET /api/v1/provider and PUT /api/v1/provider {provider}
ProviderServiceAnswer(f) ==
    IF f.method = "GET"
    THEN [kind |-> "response", ok |-> TRUE, status |-> 200,
          json |-> JsObject([current_provider |-> providerService.current_provider,
                             available_providers |-> providerService.available_providers])]
    ELSE IF f.body.provider \in DOMAIN providerService.available_providers
    THEN [kind |-> "response", ok |-> TRUE, status |-> 200,
          json |-> JsObject([current_provider |-> f.body.provider])]
    ELSE [kind |-> "response", ok |-> FALSE, status |-> 400,
          json |-> JsObject([detail |-> "Unknown provider: " \o f.body.provider])]

\* the payment service takes a request off the wire: a PUT with a key of the
\* registry makes that key the active provider, any other PUT is rejected
ProviderServiceHandles ==
    \E i \in DOMAIN fetches :
        /\ fetches[i].state = "sent"
        /\ fetches' = [fetches EXCEPT ![i].state = "answered",
                                      ![i].resp = ProviderServiceAnswer(fetches[i]),
                                      ![i].activeWhenHandled = providerService.current_provider]
        /\ providerService' =
              IF /\ fetches[i].method = "PUT"
                 /\ fetches[i].body.provider \in DOMAIN providerService.available_providers
              THEN [providerService EXCEPT !.current_provider = fetches[i].body.provider]
              ELSE providerService
        /\ UNCHANGED <<orchVars, schedVars, started, page, formVars, listVars, panelVars, providers, timers>>

\* the service is redeployed with a provider that is not active taken out
RegistryShrinks(k) ==
    /\ page = "providers"
    /\ DOMAIN providerService.available_providers = DOMAIN FullRegistry
    /\ k # providerService.current_provider
    /\ providerService' =
          [providerService EXCEPT !.available_providers =
              [x \in DOMAIN FullRegistry \ {k} |-> FullRegistry[x]]]
    /\ UNCHANGED <<orchVars, schedVars, started, page, formVars, listVars, panelVars, providers, fetches, timers>>

InitialProviders ==
    [currentProvider |-> "",
     availableProviders |-> EmptyObject,
     loading |-> FALSE,
     error |-> Null,
     success |-> FALSE,
     useEffect |-> "pending"]

\* fetch(url, init): the call as it leaves the page
Fetch(op, method, body) ==
    [op |-> op, method |-> method,
     url |-> PaymentServiceUrl \o "/api/v1/provider",
     body |-> body, state |-> "sent", resp |-> [kind |-> "none"],
     activeWhenHandled |-> ""]

InFlight(i) == fetches[i].state \in {"sent", "answered"}

\* what the awaited fetch can resolve or reject with
FetchOutcomes(i) ==
    IF fetches[i].state = "answered"
    THEN {fetches[i].resp} \cup {r \in FetchFailures : r.kind = "rejected"}
    ELSE FetchFailures

FetchSettled(i, resp) ==
    [fetches EXCEPT ![i].state = "settled", ![i].resp = resp]

NumFetches(op) == Cardinality({i \in DOMAIN fetches : fetches[i].op = op})

\* useEffect(() => loadProvider(), []): loadProvider up to its await
ProvidersMount ==
    /\ page = "providers"
    /\ providers.useEffect = "pending"
    /\ providers' = [providers EXCEPT !.useEffect = "ran"]
    /\ fetches' = Append(fetches, Fetch("loadProvider", "GET", Null))
    /\ UNCHANGED <<orchVars, schedVars, started, page, formVars, listVars, panelVars, timers, providerService>>

\* a load that stores the active provider and forgets the registry
AfterLoadWithoutRegistry(p, resp) ==
    IF resp.kind = "rejected"
    THEN [p EXCEPT !.error = JsString(Or(resp.message, "provider load failed"))]
    ELSE IF ~resp.ok
    THEN [p EXCEPT !.error = JsString("provider information could not be loaded")]
    ELSE [p EXCEPT !.currentProvider = resp.json.v.current_provider]

\* the state of the page after loadProvider's fetch has settled with resp
AfterLoad(p, resp) ==
    IF resp.kind = "rejected"
    THEN [p EXCEPT !.error = JsString(Or(resp.message, "provider load failed"))]
    ELSE IF ~resp.ok
    THEN [p EXCEPT !.error = JsString("provider information could not be loaded")]
    ELSE [p EXCEPT !.currentProvider = resp.json.v.current_provider,
                   !.availableProviders = resp.json.v.available_providers]

LoadProviderSettles ==
    \E i \in DOMAIN fetches :
        /\ fetches[i].op = "loadProvider" /\ InFlight(i)
        /\ \E resp \in FetchOutcomes(i) :
              /\ providers' = AfterLoad(providers, resp)
              /\ fetches' = FetchSettled(i, resp)
        /\ UNCHANGED <<orchVars, schedVars, started, page, formVars, listVars, panelVars, timers, providerService>>

\* a page that offers a button for every provider there is, loaded or not
ProviderKeysOfFullRegistry(p) == DOMAIN FullRegistry

\* providerKeys = Object.keys(availableProviders): one button per key
ProviderKeys(p) == DOMAIN p.availableProviders

\* a switch button that opens on every click, also while a switch is running
SwitchEnabledIgnoringLoading(p, providerKey) == p.currentProvider # providerKey

\* a switch button that is open for the active provider too
SwitchEnabledForActive(p, providerKey) == ~p.loading

\* disabled={loading || currentProvider === providerKey}
SwitchEnabled(p, providerKey) == ~(p.loading \/ p.currentProvider = providerKey)

\* a click on the button of providerKey: handleProviderChange up to its await
HandleProviderChange(providerKey) ==
    /\ page = "providers"
    /\ providerKey \in ProviderKeys(providers)
    /\ SwitchEnabled(providers, providerKey)
    /\ Len(fetches) < MaxFetches
    /\ providers' = [providers EXCEPT !.loading = TRUE, !.error = Null, !.success = FALSE]
    /\ fetches' = Append(fetches, Fetch("handleProviderChange", "PUT",
                                        [provider |-> providerKey]))
    /\ UNCHANGED <<orchVars, schedVars, started, page, formVars, listVars, panelVars, timers, providerService>>

\* errorData.detail || default, or the message of the failed response.json()
SwitchErrorMessage(resp) ==
    IF resp.kind = "rejected" THEN Or(resp.message, "provider change failed")
    ELSE IF resp.json = Null THEN "Unexpected token < in JSON at position 0"
    ELSE Or(IF "detail" \in DOMAIN resp.json.v THEN resp.json.v.detail ELSE "",
            "provider could not be changed")

\* a page that shows the requested provider as active whatever the answer
AfterSwitchOptimistic(p, f, resp) ==
    IF resp.kind = "response" /\ resp.ok
    THEN [p EXCEPT !.currentProvider = resp.json.v.current_provider,
                   !.success = TRUE, !.loading = FALSE]
    ELSE [p EXCEPT !.currentProvider = f.body.provider,
                   !.error = JsString(SwitchErrorMessage(resp)), !.loading = FALSE]

\* the state of the page after handleProviderChange's fetch f has settled
AfterSwitch(p, f, resp) ==
    IF resp.kind = "response" /\ resp.ok
    THEN [p EXCEPT !.currentProvider = resp.json.v.current_provider,
                   !.success = TRUE, !.loading = FALSE]
    ELSE [p EXCEPT !.error = JsString(SwitchErrorMessage(resp)), !.loading = FALSE]

HandleProviderChangeSettles ==
    \E i \in DOMAIN fetches :
        /\ fetches[i].op = "handleProviderChange" /\ InFlight(i)
        /\ \E resp \in FetchOutcomes(i) :
              /\ providers' = AfterSwitch(providers, fetches[i], resp)
              /\ timers' = IF resp.kind = "response" /\ resp.ok
                           THEN Append(timers, i) ELSE timers
              /\ fetches' = FetchSettled(i, resp)
        /\ UNCHANGED <<orchVars, schedVars, started, page, formVars, listVars, panelVars, providerService>>

\* setTimeout(() => setSuccess(false), 3000)
SuccessTimerFires ==
    /\ timers # <<>>
    /\ timers' = Tail(timers)
    /\ providers' = [providers EXCEPT !.success = FALSE]
    /\ UNCHANGED <<orchVars, schedVars, started, page, formVars, listVars, panelVars, fetches, providerService>>

\* the page is loaded again while nothing is in flight: its state starts
\* over, its timers are gone and the effect will run again
ProvidersReload ==
    /\ page = "providers"
    /\ providers.useEffect = "ran"
    /\ \A i \in DOMAIN fetches : ~InFlight(i)
    /\ Len(fetches) < MaxFetches
    /\ providers' = InitialProviders
    /\ timers' = <<>>
    /\ UNCHANGED <<orchVars, schedVars, started, page, formVars, listVars, panelVars, fetches, providerService>>

-----------------------------------------------------------------------------
(* Merchants.jsx: the list is loaded when the page is mounted and again on *)
(* every click on the refresh button.                                      *)

InitialMerchantsPage ==
    [merchants |-> <<>>, loading |-> FALSE, error |-> Null, useEffect |-> "pending"]

\* loadMerchants up to its await
LoadMerchants ==
    /\ merchantsPage' = [merchantsPage EXCEPT !.loading = TRUE, !.error = Null,
                                              !.useEffect = "ran"]
    /\ GetAllMerchants
    /\ caller' = AwaitedBy("loadMerchants", started + 1)
    /\ parked' = ParkActive
    /\ started' = started + 1
    /\ UNCHANGED <<page, formVars, providerVars, paymentsPage, panelVars>>

\* useEffect(() => loadMerchants(), [])
MerchantsMount ==
    /\ page = "merchants"
    /\ merchantsPage.useEffect = "pending"
    /\ LoadMerchants

\* the refresh button: disabled={loading}
MerchantsRefresh ==
    /\ page = "merchants"
    /\ merchantsPage.useEffect = "ran"
    /\ ~merchantsPage.loading
    /\ started < MaxStarted
    /\ LoadMerchants

\* getAllMerchants has settled and loadMerchants resumes
LoadMerchantsResumes ==
    /\ caller.handler = "loadMerchants"
    /\ pc = "idle"
    /\ merchantsPage' =
          IF outcome.kind = "returned"
          THEN [merchantsPage EXCEPT !.merchants = outcome.value, !.loading = FALSE]
          ELSE [merchantsPage EXCEPT
                   !.error = JsString(ViewErrorMessage(outcome.error,
                                                       "merchants could not be loaded")),
                   !.loading = FALSE]
    /\ caller' = NoCaller
    /\ UNCHANGED <<orchVars, parked, started, page, formVars, providerVars,
                   paymentsPage, panelVars>>

-----------------------------------------------------------------------------
(* Payments.jsx: the list is loaded whenever the date range changes (an    *)
(* effect on [dateFrom, dateTo]) and on every click on the refresh button. *)

InitialPaymentsPage ==
    [payments |-> <<>>, loading |-> FALSE, error |-> Null,
     dateFrom |-> "", dateTo |-> "", useEffect |-> "pending"]

\* today and thirty days before, as the first effect computes them
DefaultDateTo == "2026-01-31"
DefaultDateFrom == "2026-01-01"

\* what the operator puts into the two date inputs ("": the input is cleared)
DateEdits ==
    {[name |-> "dateFrom", value |-> "2026-01-15"],
     [name |-> "dateFrom", value |-> ""],
     [name |-> "dateTo", value |-> "2026-01-20"]}

\* loadPayments up to its await, in the render that holds dateFrom and dateTo
LoadPayments(dateFrom, dateTo) ==
    /\ started < MaxStarted
    /\ paymentsPage' = [paymentsPage EXCEPT !.loading = TRUE, !.error = Null,
                                            !.dateFrom = dateFrom, !.dateTo = dateTo,
                                            !.useEffect = "ran"]
    /\ GetAllPayments(dateFrom, dateTo)
    /\ caller' = AwaitedBy("loadPayments", started + 1)
    /\ parked' = ParkActive
    /\ started' = started + 1
    /\ UNCHANGED <<page, formVars, providerVars, merchantsPage, panelVars>>

\* the first effect sets both dates; the effect on [dateFrom, dateTo] then
\* finds them set and loads
PaymentsMount ==
    /\ page = "payments"
    /\ paymentsPage.useEffect = "pending"
    /\ LoadPayments(DefaultDateFrom, DefaultDateTo)

\* onChange of a date input, and the effect on [dateFrom, dateTo] after it:
\* if (dateFrom && dateTo) loadPayments()
SetDate(name, value) ==
    /\ page = "payments"
    /\ paymentsPage.useEffect = "ran"
    /\ paymentsPage[name] # value
    /\ LET dateFrom == IF name = "dateFrom" THEN value ELSE paymentsPage.dateFrom
           dateTo == IF name = "dateTo" THEN value ELSE paymentsPage.dateTo
       IN  IF dateFrom # "" /\ dateTo # ""
           THEN LoadPayments(dateFrom, dateTo)
           ELSE /\ paymentsPage' = [paymentsPage EXCEPT ![name] = value]
                /\ UNCHANGED <<orchVars, schedVars, started, page, formVars,
                               providerVars, merchantsPage, panelVars>>

\* a refresh button that is open while a listing is loading
RefreshEnabledWhileLoading(p) == p.dateFrom # "" /\ p.dateTo # ""

\* the refresh button: disabled={loading || !dateFrom || !dateTo}
RefreshEnabled(p) == ~(p.loading \/ p.dateFrom = "" \/ p.dateTo = "")

PaymentsRefresh ==
    /\ page = "payments"
    /\ paymentsPage.useEffect = "ran"
    /\ RefreshEnabled(paymentsPage)
    /\ LoadPayments(paymentsPage.dateFrom, paymentsPage.dateTo)

\* getAllPayments has settled and loadPayments resumes
LoadPaymentsResumes ==
    /\ caller.handler = "loadPayments"
    /\ pc = "idle"
    /\ paymentsPage' =
          IF outcome.kind = "returned"
          THEN [paymentsPage EXCEPT !.payments = outcome.value, !.loading = FALSE]
          ELSE [paymentsPage EXCEPT
                   !.error = JsString(ViewErrorMessage(outcome.error,
                                                       "payments could not be loaded")),
                   !.loading = FALSE]
    /\ caller' = NoCaller
    /\ UNCHANGED <<orchVars, parked, started, page, formVars, providerVars,
                   merchantsPage, panelVars>>

-----------------------------------------------------------------------------
(* MerchantPanel: the creation form (handleCreateMerchant) and the         *)
(* dashboard form (handleGetDashboard), each with its own in-flight flag.  *)
(* The logo is given by URL; the file input is not followed, so            *)
(* createLogoFile and createLogoPreview change only when they are cleared. *)

InitialMerchantPanel ==
    [merchantName |-> "", createdMerchant |-> Null, error |-> Null, loading |-> FALSE,
     dashboardApiKey |-> "", dashboardData |-> Null, dashboardError |-> Null,
     dashboardLoading |-> FALSE,
     createLogoFile |-> Null, createLogoPreview |-> Null, createLogoUrl |-> ""]

\* what the operator types into the three text inputs
PanelEdits ==
    {[name |-> "merchantName", value |-> "Demo Shop"],
     [name |-> "createLogoUrl", value |-> "https://cdn.example/l.png"],
     [name |-> "dashboardApiKey", value |-> "key-A"]}

\* onChange of merchantName and dashboardApiKey; handleCreateLogoUrlChange
\* also drops the chosen file and the displayed error
PanelChange(name, value) ==
    /\ page = "merchant-panel"
    /\ merchantPanel[name] # value
    /\ merchantPanel' =
          IF name = "createLogoUrl"
          THEN [merchantPanel EXCEPT !.createLogoUrl = value, !.createLogoFile = Null,
                                     !.createLogoPreview = Null, !.error = Null]
          ELSE [merchantPanel EXCEPT ![name] = value]
    /\ UNCHANGED <<orchVars, schedVars, started, page, formVars, providerVars, listVars>>

\* a creation form that can be submitted again while it is being submitted
CreateEnabledWhileLoading(p) == p.merchantName # ""

\* merchantName is required; <button type="submit" disabled={loading}>
CreateEnabled(p) == ~p.loading /\ p.merchantName # ""

\* createLogoUrl || null
LogoUrlOrNull(p) == IF p.createLogoUrl = "" THEN Null ELSE JsString(p.createLogoUrl)

\* handleCreateMerchant up to its await
HandleCreateMerchant ==
    /\ page = "merchant-panel"
    /\ CreateEnabled(merchantPanel)
    /\ started < MaxStarted
    /\ merchantPanel' = [merchantPanel EXCEPT !.error = Null, !.loading = TRUE]
    /\ CreateMerchant(JsObject([name |-> merchantPanel.merchantName,
                                logo_url |-> LogoUrlOrNull(merchantPanel)]))
    /\ caller' = AwaitedBy("handleCreateMerchant", started + 1)
    /\ parked' = ParkActive
    /\ started' = started + 1
    /\ UNCHANGED <<page, formVars, providerVars, listVars>>

\* a panel that forgets the merchant shown when a creation fails
AfterCreateMerchantClearing(p, result) ==
    IF result.kind = "returned"
    THEN [p EXCEPT !.createdMerchant = JsObject(result.value),
                   !.dashboardApiKey = IF Len(result.value.api_keys) > 0
                                       THEN result.value.api_keys[1] ELSE @,
                   !.merchantName = "", !.createLogoFile = Null,
                   !.createLogoPreview = Null, !.createLogoUrl = "",
                   !.loading = FALSE]
    ELSE [p EXCEPT !.createdMerchant = Null,
                   !.error = JsString(ViewErrorMessage(result.error,
                                                       "merchant could not be created")),
                   !.loading = FALSE]

\* the panel after createMerchant has settled with result
AfterCreateMerchant(p, result) ==
    IF result.kind = "returned"
    THEN [p EXCEPT !.createdMerchant = JsObject(result.value),
                   !.dashboardApiKey = IF Len(result.value.api_keys) > 0
                                       THEN result.value.api_keys[1] ELSE @,
                   !.merchantName = "", !.createLogoFile = Null,
                   !.createLogoPreview = Null, !.createLogoUrl = "",
                   !.loading = FALSE]
    ELSE [p EXCEPT !.error = JsString(ViewErrorMessage(result.error,
                                                       "merchant could not be created")),
                   !.loading = FALSE]

HandleCreateMerchantResumes ==
    /\ caller.handler = "handleCreateMerchant"
    /\ pc = "idle"
    /\ merchantPanel' = AfterCreateMerchant(merchantPanel, outcome)
    /\ caller' = NoCaller
    /\ UNCHANGED <<orchVars, parked, started, page, formVars, providerVars, listVars>>

\* a dashboard form that can be submitted again while it is being submitted
DashboardEnabledWhileLoading(p) == p.dashboardApiKey # ""

\* dashboardApiKey is required; <button type="submit" disabled={dashboardLoading}>
DashboardEnabled(p) == ~p.dashboardLoading /\ p.dashboardApiKey # ""

\* handleGetDashboard up to its await
HandleGetDashboard ==
    /\ page = "merchant-panel"
    /\ DashboardEnabled(merchantPanel)
    /\ started < MaxStarted
    /\ merchantPanel' = [merchantPanel EXCEPT !.dashboardError = Null,
                                              !.dashboardLoading = TRUE]
    /\ GetDashboard(merchantPanel.dashboardApiKey)
    /\ caller' = AwaitedBy("handleGetDashboard", started + 1)
    /\ parked' = ParkActive
    /\ started' = started + 1
    /\ UNCHANGED <<page, formVars, providerVars, listVars>>

\* a panel whose dashboard flag is cleared after a success only
AfterGetDashboardNoFinally(p, result) ==
    IF result.kind = "returned"
    THEN [p EXCEPT !.dashboardData = JsObject(result.value), !.dashboardLoading = FALSE]
    ELSE [p EXCEPT !.dashboardError =
                       JsString(ViewErrorMessage(result.error,
                                                 "dashboard could not be fetched"))]

\* the panel after getDashboard has settled with result
AfterGetDashboard(p, result) ==
    IF result.kind = "returned"
    THEN [p EXCEPT !.dashboardData = JsObject(result.value), !.dashboardLoading = FALSE]
    ELSE [p EXCEPT !.dashboardError =
                       JsString(ViewErrorMessage(result.error,
                                                 "dashboard could not be fetched")),
                   !.dashboardLoading = FALSE]

HandleGetDashboardResumes ==
    /\ caller.handler = "handleGetDashboard"
    /\ pc = "idle"
    /\ merchantPanel' = AfterGetDashboard(merchantPanel, outcome)
    /\ caller' = NoCaller
    /\ UNCHANGED <<orchVars, parked, started, page, formVars, providerVars, listVars>>

-----------------------------------------------------------------------------

Pages == {"api", "payment-form", "providers", "merchants", "payments", "merchant-panel"}

Init ==
    /\ env \in EnvChoices
    /\ call = [fn |-> "none"]
    /\ pc = "idle"
    /\ locals = NoLocals
    /\ requests = <<>>
    /\ outcome = [kind |-> "none"]
    /\ page \in Pages
    \* the Merchants page reads VITE_MERCHANT_SERVICE_URL only
    /\ page = "merchants" =>
          env.VITE_API_BASE_URL = "" /\ env.VITE_PAYMENT_SERVICE_URL = ""
    \* the Providers page, the Payments page and the panel are followed in a
    \* deployment with the default addresses
    /\ page \in {"providers", "payments", "merchant-panel"} =>
          /\ env.VITE_API_BASE_URL = ""
          /\ env.VITE_MERCHANT_SERVICE_URL = ""
          /\ env.VITE_PAYMENT_SERVICE_URL = ""
    /\ paymentForm = InitialPaymentForm
    /\ opened = <<>>
    /\ submits = 0
    /\ providers = InitialProviders
    /\ fetches = <<>>
    /\ timers = <<>>
    /\ providerService = InitialProviderService
    /\ caller = NoCaller
    /\ parked = <<>>
    /\ started = 0
    /\ merchantsPage = InitialMerchantsPage
    /\ paymentsPage = InitialPaymentsPage
    /\ merchantPanel = InitialMerchantPanel

\* what the orchestrator never touches: the state of the views
viewVars == <<page, formVars, providerVars, schedVars, started, listVars, panelVars>>

\* the exported functions called directly (page "api"), the steps of the
\* orchestrator functions, and the handlers of the page shown
Next ==
    \/ page = "api" /\ pc = "idle" /\ UNCHANGED viewVars /\ \E x \in MerchantInputs : CreateMerchant(x)
    \/ CreateMerchantFirstSettles /\ UNCHANGED viewVars
    \/ CreateMerchantFallbackSettles /\ UNCHANGED viewVars
    \/ page = "api" /\ pc = "idle" /\ UNCHANGED viewVars /\ \E k \in DashboardKeys : GetDashboard(k)
    \/ GetDashboardHtmlSettles /\ UNCHANGED viewVars
    \/ GetDashboardMeSettles /\ UNCHANGED viewVars
    \/ GetDashboardPaymentsSettles /\ UNCHANGED viewVars
    \/ page = "api" /\ pc = "idle" /\ UNCHANGED viewVars
          /\ \E k \in PaymentKeys, pd \in PaymentInputs : CreatePayment(k, pd)
    \/ CreatePaymentMeSettles /\ UNCHANGED viewVars
    \/ CreatePaymentPostSettles /\ UNCHANGED viewVars
    \/ page = "api" /\ pc = "idle" /\ UNCHANGED viewVars /\ GetAllMerchants
    \/ GetAllMerchantsSettles /\ UNCHANGED viewVars
    \/ page = "api" /\ pc = "idle" /\ UNCHANGED viewVars
          /\ \E k \in {"key-A", "key-X"}, u \in UpdateInputs : UpdateMerchant(k, u)
    \/ UpdateMerchantSettles /\ UNCHANGED viewVars
    \/ page = "api" /\ pc = "idle" /\ UNCHANGED viewVars
          /\ \E r \in DateRanges : GetAllPayments(r.dateFrom, r.dateTo)
    \/ GetAllPaymentsSettles /\ UNCHANGED viewVars
    \/ \E e \in FieldEdits : HandleChange(e.name, e.value)
    \/ HandleSubmit
    \/ HandleSubmitResumes
    \/ \E i \in DOMAIN parked : Schedule(i)
    \/ MerchantsMount
    \/ MerchantsRefresh
    \/ LoadMerchantsResumes
    \/ PaymentsMount
    \/ \E e \in DateEdits : SetDate(e.name, e.value)
    \/ PaymentsRefresh
    \/ LoadPaymentsResumes
    \/ \E e \in PanelEdits : PanelChange(e.name, e.value)
    \/ HandleCreateMerchant
    \/ HandleCreateMerchantResumes
    \/ HandleGetDashboard
    \/ HandleGetDashboardResumes
    \/ ProvidersMount
    \/ LoadProviderSettles
    \/ \E providerKey \in DOMAIN FullRegistry : HandleProviderChange(providerKey)
    \/ HandleProviderChangeSettles
    \/ SuccessTimerFires
    \/ ProvidersReload
    \/ ProviderServiceHandles
    \/ \E k \in DOMAIN providerService.available_providers : RegistryShrinks(k)

Spec == Init /\ [][Next]_vars

\* a request in flight settles (every request is answered, refused or timed
\* out), or a handler whose awaited call has settled resumes
Progress ==
    \/ /\ \/ CreateMerchantFirstSettles \/ CreateMerchantFallbackSettles
          \/ GetDashboardHtmlSettles \/ GetDashboardMeSettles
          \/ GetDashboardPaymentsSettles
          \/ CreatePaymentMeSettles \/ CreatePaymentPostSettles
          \/ GetAllMerchantsSettles \/ UpdateMerchantSettles \/ GetAllPaymentsSettles
       /\ UNCHANGED viewVars
    \/ HandleSubmitResumes \/ LoadMerchantsResumes \/ LoadPaymentsResumes
    \/ HandleCreateMerchantResumes \/ HandleGetDashboardResumes
    \/ LoadProviderSettles \/ HandleProviderChangeSettles

\* nothing is left to run for the invocation at hand: the event loop turns
\* to one of the suspended ones
TurnsToSuspended == ~Live(Active) /\ \E i \in DOMAIN parked : Schedule(i)

\* the program with what the event loop and the transport guarantee: a
\* pending request settles and a ready continuation runs
FairSpec == Spec /\ WF_vars(Progress) /\ WF_vars(TurnsToSuspended)

-----------------------------------------------------------------------------
(* Properties.  `requests` holds the requests of the invocation named by   *)
(* `call`, in the order they were issued.                                  *)

In(fn) == call.fn = fn
Finished == pc = "idle"
Failed(i) == requests[i].state = "err"
Succeeded(i) == requests[i].state = "ok"
ErrorOf(i) == requests[i].resp.error
DataOf(i) == requests[i].resp.data
IsReq(i, method, url) == requests[i].req.method = method /\ requests[i].req.url = url
NumPending == Cardinality({i \in DOMAIN requests : requests[i].state = "pending"})
NumSucceeded == Cardinality({i \in DOMAIN requests : requests[i].state = "ok"})
RoutingError(e) == e.status = 404 \/ e.code = "ECONNREFUSED"

\* C1: createMerchant sends its first POST /api/v1/merchants to the primary
\* (gateway) address; when that fails with 404 or ECONNREFUSED exactly one
\* further POST with the identical body goes to the secondary (merchant
\* service) address, and the body of that second response is returned.
C1_FirstPrimaryThenSecondary ==
    In("createMerchant") =>
        /\ IsReq(1, "POST", "/api/v1/merchants")
        /\ requests[1].req.baseURL = API_BASE_URL
        /\ (Failed(1) /\ RoutingError(ErrorOf(1))) =>
              /\ Len(requests) = 2
              /\ IsReq(2, "POST", "/api/v1/merchants")
              /\ requests[2].req.data = requests[1].req.data
              /\ requests[2].req.baseURL = MerchantServiceUrl
              /\ (Finished /\ Succeeded(2)) => outcome = Returned(DataOf(2))

\* C2: when createMerchant's first attempt fails with an error other than 404
\* or connection refused, no second POST is issued and that same error is
\* thrown to the caller.
C2_OtherFailurePropagates ==
    (In("createMerchant") /\ Failed(1) /\ ~RoutingError(ErrorOf(1))) =>
        /\ Len(requests) = 1
        /\ Finished
        /\ outcome = Thrown(ErrorOf(1))

C2_Witness ==
    /\ In("createMerchant") /\ Finished /\ Len(requests) = 1 /\ Failed(1)
    /\ ErrorOf(1).status = 500
    /\ outcome = Thrown(ErrorOf(1))

\* C3: one createMerchant invocation issues at most two POSTs, at most one of
\* which succeeds; a failure of the fallback attempt (also a 404 or a refused
\* connection) is thrown to the caller and no third attempt is made.
C3_AtMostTwoAttempts ==
    In("createMerchant") =>
        /\ Len(requests) <= 2
        /\ \A i \in DOMAIN requests : IsReq(i, "POST", "/api/v1/merchants")
        /\ NumSucceeded <= 1
        /\ (Len(requests) = 2 /\ Failed(2)) =>
              (Finished /\ outcome = Thrown(ErrorOf(2)))

C3_Witness ==
    /\ In("createMerchant") /\ Finished /\ Len(requests) = 2
    /\ Failed(1) /\ Failed(2) /\ ErrorOf(2).code = "ECONNREFUSED"
    /\ outcome = Thrown(ErrorOf(2))

\* C4: when createMerchant's first attempt, made against the primary address,
\* succeeds, exactly one POST is issued, the secondary address is never
\* contacted, and the merchant returned by the primary is the result.
C4_PrimarySuccessNeverContactsSecondary ==
    (In("createMerchant") /\ Succeeded(1)) =>
        /\ Len(requests) = 1
        /\ requests[1].req.baseURL = API_BASE_URL
        /\ \A i \in DOMAIN requests : requests[i].req.baseURL # MerchantServiceUrl
        /\ outcome = Returned(DataOf(1))

\* C5: getDashboard issues (a) GET /api/v1/dashboard, (b) GET
\* /api/v1/merchants/me, (c) GET /api/v1/payments/by-merchant/{id} in this
\* order, (a) and (b) with the credential; each is issued only after the one
\* before it succeeded, and never are two of them in flight together.
C5_DashboardStrictOrder ==
    In("getDashboard") =>
        /\ Len(requests) \in 1..3
        /\ IsReq(1, "GET", "/api/v1/dashboard")
        /\ ApiKeyOf(requests[1].req) = call.apiKey
        /\ Len(requests) >= 2 =>
              /\ IsReq(2, "GET", "/api/v1/merchants/me")
              /\ ApiKeyOf(requests[2].req) = call.apiKey
        /\ Len(requests) >= 3 =>
              /\ requests[3].req.method = "GET"
              /\ \E id \in MerchantIds : requests[3].req.url = ByMerchantPath(id)
        /\ \A i \in 1..(Len(requests) - 1) : Succeeded(i)
        /\ NumPending <= 1

C5_Witness ==
    /\ In("getDashboard") /\ Len(requests) = 3
    /\ Succeeded(1) /\ Succeeded(2) /\ requests[3].state = "pending"

\* C6: getDashboard is all-or-nothing: once a step fails no later request is
\* issued, nothing is returned, and the error of the failing step is thrown
\* unchanged; so too when (c) fails after (a) and (b) succeeded.
C6_DashboardAllOrNothing ==
    In("getDashboard") =>
        /\ \A i \in DOMAIN requests :
              Failed(i) => /\ i = Len(requests)
                           /\ Finished
                           /\ outcome = Thrown(ErrorOf(i))
        /\ outcome.kind = "returned" =>
              (Len(requests) = 3 /\ \A i \in 1..3 : Succeeded(i))

C6_Witness ==
    /\ In("getDashboard") /\ Finished /\ Len(requests) = 3
    /\ Succeeded(1) /\ Succeeded(2) /\ Failed(3)
    /\ outcome = Thrown(ErrorOf(3))

\* C7: for a credential that resolves to merchant M, the view getDashboard
\* returns has merchant M, the payment service's listing for M's id (the id
\* requested in (c) is the id step (b) returned) and the payload of step (a).
C7_DashboardViewOfOwner ==
    In("getDashboard") =>
        /\ Len(requests) = 3 =>
              requests[3].req.url = ByMerchantPath(DataOf(2).id)
        /\ outcome.kind = "returned" =>
              /\ call.apiKey \in Credentials
              /\ outcome.value.merchant = Owner(call.apiKey)
              /\ outcome.value.payments = PaymentsOf(Owner(call.apiKey).id)
              /\ \A i \in DOMAIN outcome.value.payments :
                    outcome.value.payments[i].merchant_id = Owner(call.apiKey).id
              /\ outcome.value.dashboardHtml = DataOf(1)

C7_Witness ==
    /\ In("getDashboard") /\ outcome.kind = "returned"
    /\ call.apiKey = "key-B"
    /\ outcome.value.merchant.id = "m-B"
    /\ Len(outcome.value.payments) = 1

\* C8: createPayment first resolves the merchant with GET /api/v1/merchants/me
\* carrying the credential; only after that succeeded it issues POST
\* /v1/payments with the merchant_id step 1 returned and the same credential;
\* when step 1 fails nothing is submitted and its error is thrown.
C8_PaymentTwoSteps ==
    In("createPayment") =>
        /\ Len(requests) \in 1..2
        /\ IsReq(1, "GET", "/api/v1/merchants/me")
        /\ ApiKeyOf(requests[1].req) = call.apiKey
        /\ Len(requests) = 2 =>
              /\ Succeeded(1)
              /\ IsReq(2, "POST", "/v1/payments")
              /\ requests[2].req.data.merchant_id = DataOf(1).id
              /\ ApiKeyOf(requests[2].req) = call.apiKey
        /\ Failed(1) =>
              (Len(requests) = 1 /\ Finished /\ outcome = Thrown(ErrorOf(1)))

C8_Witness ==
    /\ In("createPayment") /\ Len(requests) = 2 /\ Succeeded(1)
    /\ requests[2].req.data.merchant_id = "m-B"
    /\ ApiKeyOf(requests[2].req) = "key-B"

CharDigit(ch) == CHOOSE d \in 0..9 : DigitChar(d) = ch

RECURSIVE ParseNat(_)
ParseNat(s) ==
    IF s = <<>> THEN 0
    ELSE 10 * ParseNat(SubSeq(s, 1, Len(s) - 1)) + CharDigit(s[Len(s)])

\* the number (in hundredths) a decimal numeral denotes
ParseCents(s) ==
    LET neg  == Len(s) > 0 /\ s[1] = "-"
        body == IF neg THEN Tail(s) ELSE s
        dot  == IF \E i \in DOMAIN body : body[i] = "."
                THEN CHOOSE i \in DOMAIN body : body[i] = "."
                ELSE Len(body) + 1
        ip   == SubSeq(body, 1, dot - 1)
        fp   == SubSeq(body, dot + 1, Len(body))
        frac == IF Len(fp) = 1 THEN 10 * ParseNat(fp) ELSE ParseNat(fp)
        v    == 100 * ParseNat(ip) + frac
    IN  IF neg THEN 0 - v ELSE v

\* C9: whether the amount is supplied as a number or as a string, the amount
\* in the body createPayment submits is a string: the supplied string itself,
\* or the decimal numeral of the supplied number (no trailing zeros).
C9_AmountSentAsString ==
    (In("createPayment") /\ Len(requests) = 2) =>
        LET sent     == requests[2].req.data.amount
            supplied == call.paymentData.amount
        IN  /\ sent.t = "string"
            /\ supplied.t = "string" => sent.v = supplied.v
            /\ supplied.t = "number" =>
                  /\ ParseCents(sent.v) = supplied.v
                  /\ (\E i \in DOMAIN sent.v : sent.v[i] = ".") =>
                        sent.v[Len(sent.v)] \notin {"0", "."}
                  /\ supplied.v = 10000 => sent.v = <<"1", "0", "0">>
                  /\ supplied.v = 1050 => sent.v = <<"1", "0", ".", "5">>
                  /\ supplied.v = 5 => sent.v = <<"0", ".", "0", "5">>

C9_Witness ==
    /\ In("createPayment") /\ Len(requests) = 2
    /\ call.paymentData.amount.t = "number"
    /\ call.paymentData.amount.v = 1050
    /\ requests[2].req.data.amount = JsString(<<"1", "0", ".", "5">>)

HasMethod(pd) == "payment_method" \in DOMAIN pd

\* C10 as stated: the submitted payment_method is the request's tag whenever
\* one is given and 'card' when it is omitted; currency and description pass
\* through unchanged.
C10_MethodAsGiven ==
    (In("createPayment") /\ Len(requests) = 2) =>
        LET body == requests[2].req.data
            pd   == call.paymentData
        IN  /\ HasMethod(pd) => body.payment_method = pd.payment_method
            /\ ~HasMethod(pd) => body.payment_method = "card"
            /\ body.currency = pd.currency
            /\ body.description = pd.description

\* C10 (amended): the submitted payment_method is the request's tag when one
\* is given and is not empty, and 'card' when the tag is omitted or empty;
\* currency and description pass through unchanged.
C10_MethodOrCard ==
    (In("createPayment") /\ Len(requests) = 2) =>
        LET body == requests[2].req.data
            pd   == call.paymentData
        IN  /\ (HasMethod(pd) /\ pd.payment_method # "") =>
                  body.payment_method = pd.payment_method
            /\ (~HasMethod(pd) \/ pd.payment_method = "") =>
                  body.payment_method = "card"
            /\ body.currency = pd.currency
            /\ body.description = pd.description

C10_Witness ==
    /\ In("createPayment") /\ Len(requests) = 2
    /\ HasMethod(call.paymentData) /\ call.paymentData.payment_method = ""
    /\ requests[2].req.data.payment_method = "card"
    /\ requests[2].req.data.currency = "USD"

HttpScheme == <<"h", "t", "t", "p", ":", "/", "/">>
HttpsScheme == <<"h", "t", "t", "p", "s", ":", "/", "/">>
HasScheme(u) == StartsWith(u, HttpScheme) \/ StartsWith(u, HttpsScheme)

\* the challenge URL of the payment result the form holds
ResultUrl == paymentForm.paymentResult.v.next_action_url
ResultNeedsChallenge ==
    /\ paymentForm.paymentResult # Null
    /\ paymentForm.paymentResult.v.requires_action
    /\ ResultUrl # <<>>
LastOpened == opened[Len(opened)]

\* C11: the URL opened for a challenge is the backend's URL u unchanged when
\* u starts with the scheme http:// or https://, and otherwise the gateway
\* base address immediately followed by u; '/mock-3ds?token=abc' with base
\* 'http://localhost:8000' gives 'http://localhost:8000/mock-3ds?token=abc'
\* and 'https://ext.example/x' stays as it is.
C11_UrlNormalization ==
    ResultNeedsChallenge =>
        /\ Len(opened) >= 1
        /\ HasScheme(ResultUrl) => LastOpened = ResultUrl
        /\ ~HasScheme(ResultUrl) => LastOpened = Chars(API_BASE_URL) \o ResultUrl
        /\ (ResultUrl = RelativeChallengeUrl /\ API_BASE_URL = "http://localhost:8000") =>
              LastOpened = <<"h", "t", "t", "p", ":", "/", "/", "l", "o", "c", "a", "l", "h", "o", "s", "t", ":", "8", "0", "0", "0", "/", "m", "o", "c", "k", "-", "3", "d", "s", "?", "t", "o", "k", "e", "n", "=", "a", "b", "c">>
        /\ ResultUrl = AbsoluteChallengeUrl => LastOpened = <<"h", "t", "t", "p", "s", ":", "/", "/", "e", "x", "t", ".", "e", "x", "a", "m", "p", "l", "e", "/", "x">>

C11_Witness ==
    /\ ResultNeedsChallenge
    /\ ResultUrl = RelativeChallengeUrl
    /\ env.VITE_API_BASE_URL = ""
    /\ LastOpened = <<"h", "t", "t", "p", ":", "/", "/", "l", "o", "c", "a", "l", "h", "o", "s", "t", ":", "8", "0", "0", "0", "/", "m", "o", "c", "k", "-", "3", "d", "s", "?", "t", "o", "k", "e", "n", "=", "a", "b", "c">>

\* C12: for a payment result with a challenge URL, the URL opened after the
\* submission and the href of the rendered 3DS link are the same string.
C12_OpenedEqualsLink ==
    /\ ChallengeLink.shown => (Len(opened) >= 1 /\ LastOpened = ChallengeLink.href)
    /\ ResultNeedsChallenge => ChallengeLink.shown

C12_Witness ==
    /\ ChallengeLink.shown
    /\ ResultUrl = RelativeChallengeUrl
    /\ env.VITE_API_BASE_URL = "https://gw.example"
    /\ LastOpened = ChallengeLink.href
    /\ Len(LastOpened) = Len(ResultUrl) + 18

\* C13: createPayment never navigates: a window is opened only by the form's
\* handler when it resumes with a returned payment, at most one per
\* submission, and only for requires_action with a non-empty next_action_url;
\* with requires_action and no URL no window is opened and no link is shown.
C13_NavigationOnlyByForm ==
    /\ [](/\ Len(opened) <= submits
          /\ (paymentForm.paymentResult # Null /\ ResultUrl = <<>>) => ~ChallengeLink.shown
          /\ (paymentForm.paymentResult # Null /\ ~paymentForm.paymentResult.v.requires_action)
                => ~ChallengeLink.shown)
    /\ [][/\ (requests' # requests \/ pc' # pc \/ outcome' # outcome) => opened' = opened
          /\ opened' # opened =>
                /\ paymentForm.handleSubmit = "awaiting" /\ paymentForm'.handleSubmit = "idle"
                /\ outcome.kind = "returned"
                /\ outcome.value.requires_action
                /\ outcome.value.next_action_url # <<>>
                /\ Len(opened') = Len(opened) + 1
                /\ paymentForm'.paymentResult = JsObject(outcome.value)
          /\ (paymentForm.handleSubmit = "awaiting" /\ paymentForm'.handleSubmit = "idle"
              /\ outcome.kind = "returned"
              /\ ~(outcome.value.requires_action /\ outcome.value.next_action_url # <<>>))
                => opened' = opened]_vars

C13_Witness ==
    /\ submits = 2 /\ Len(opened) = 1
    /\ paymentForm.paymentResult # Null
    /\ paymentForm.paymentResult.v.requires_action
    /\ ResultUrl = <<>>
    /\ ~ChallengeLink.shown

\* C14: for every request whose config carries a credential the interceptor
\* puts exactly that credential into X-API-Key and removes apiKey from the
\* config, everything else staying as it was; a config without a credential
\* goes out unchanged, without an X-API-Key header.
C14_InterceptorMovesCredential ==
    \A i \in DOMAIN requests :
        LET c == requests[i].config
            r == requests[i].req
        IN  IF "apiKey" \in DOMAIN c /\ c.apiKey # ""
            THEN /\ "X-API-Key" \in DOMAIN r.headers
                 /\ r.headers["X-API-Key"] = c.apiKey
                 /\ DOMAIN r = DOMAIN c \ {"apiKey"}
                 /\ \A k \in DOMAIN r \ {"headers"} : r[k] = c[k]
                 /\ DOMAIN r.headers = DOMAIN c.headers \cup {"X-API-Key"}
                 /\ \A h \in DOMAIN c.headers : r.headers[h] = c.headers[h]
            ELSE /\ r = c
                 /\ "X-API-Key" \notin DOMAIN r.headers

C14_Witness ==
    /\ In("createPayment") /\ Len(requests) = 2
    /\ requests[2].config.apiKey = "key-B"
    /\ requests[2].req.headers["X-API-Key"] = "key-B"
    /\ "apiKey" \notin DOMAIN requests[2].req
    /\ requests[2].req.headers["Content-Type"] = "application/json"

IsSwitch(i) == fetches[i].op = "handleProviderChange"
IsLoad(i) == fetches[i].op = "loadProvider"
Answered(i) == fetches[i].resp.kind = "response"
RejectedByService(i) == IsSwitch(i) /\ Answered(i) /\ fetches[i].resp.status = 400
SettledOk(i) == fetches[i].state = "settled" /\ Answered(i) /\ fetches[i].resp.ok
\* the step in which the awaited fetch i settles and its handler resumes
Settles(i) == InFlight(i) /\ fetches'[i].state = "settled"
\* the step in which the payment service handles request i
Handles(i) == fetches[i].state = "sent" /\ fetches'[i].state = "answered"

\* C15: a switch to a key the payment service rejects (a key that is not in
\* its registry) is answered with the service's error, which the page shows;
\* the service's active provider and the page's current provider stay what
\* they were, and a registry read that follows returns the provider that was
\* active before the switch.
C15_RejectedSwitchChangesNothing ==
    /\ [](\A i \in DOMAIN fetches :
            (RejectedByService(i) /\ i + 1 \in DOMAIN fetches /\ IsLoad(i + 1)) =>
                /\ fetches[i].activeWhenHandled \notin {"", fetches[i].body.provider}
                /\ (Answered(i + 1) /\ fetches[i + 1].resp.ok) =>
                      fetches[i + 1].resp.json.v.current_provider
                          = fetches[i].activeWhenHandled
                /\ (SettledOk(i + 1) /\ i + 1 = Len(fetches) /\ providers.useEffect = "ran") =>
                      providers.currentProvider = fetches[i].activeWhenHandled)
    /\ [][\A i \in DOMAIN fetches :
            /\ (/\ Handles(i) /\ IsSwitch(i)
                /\ fetches[i].body.provider \notin DOMAIN providerService.available_providers)
                  => /\ providerService' = providerService
                     /\ ~fetches'[i].resp.ok
                     /\ fetches'[i].resp.status = 400
            /\ (Settles(i) /\ IsSwitch(i) /\ ~(Answered(i)' /\ fetches'[i].resp.ok))
                  => /\ providers'.currentProvider = providers.currentProvider
                     /\ providers'.availableProviders = providers.availableProviders
                     /\ providers'.error # Null
                     /\ ~providers'.success /\ ~providers'.loading
                     /\ timers' = timers
                     /\ RejectedByService(i)' =>
                           providers'.error = JsString(fetches'[i].resp.json.v.detail)]_vars

C15_Witness ==
    \E i \in DOMAIN fetches :
        /\ RejectedByService(i) /\ fetches[i].state = "settled"
        /\ i + 1 = Len(fetches) /\ IsLoad(i + 1) /\ SettledOk(i + 1)
        /\ fetches[i].body.provider = "mock_3ds"
        /\ providers.currentProvider = "mock_success"
        /\ providerService.current_provider = "mock_success"
        /\ "mock_3ds" \notin DOMAIN providers.availableProviders

NumSwitchesInFlight == Cardinality({i \in DOMAIN fetches : IsSwitch(i) /\ InFlight(i)})

\* C17: while a switch request is in flight the page is loading and every
\* switch button is disabled, so no further switch can be issued before it
\* settles: at most one PUT /api/v1/provider is in flight at any time.
C17_OneSwitchInFlight ==
    /\ NumSwitchesInFlight <= 1
    /\ NumSwitchesInFlight = 1 =>
          /\ providers.loading
          /\ \A k \in DOMAIN providers.availableProviders : ~SwitchEnabled(providers, k)
    /\ \A i \in DOMAIN fetches :
          IsSwitch(i) => fetches[i].method = "PUT"
                         /\ fetches[i].url = PaymentServiceUrl \o "/api/v1/provider"

C17_Witness ==
    /\ NumSwitchesInFlight = 1
    /\ Len(fetches) < MaxFetches
    /\ \E k \in DOMAIN providers.availableProviders :
          /\ k # providers.currentProvider
          /\ k # fetches[Len(fetches)].body.provider
          /\ IsSwitch(Len(fetches))

\* C18 as stated: in every reachable state of the Providers page, the initial
\* one included, the current provider key is a key of the registry mapping.
C18_CurrentKeyAlwaysInRegistry ==
    page = "providers" => providers.currentProvider \in DOMAIN providers.availableProviders

\* the last registry read of the page as it is mounted now has succeeded
RegistryLoaded ==
    /\ providers.useEffect = "ran"
    /\ \E i \in DOMAIN fetches :
          /\ IsLoad(i) /\ SettledOk(i)
          /\ \A j \in DOMAIN fetches : IsLoad(j) => j <= i

\* C18: once the registry load has succeeded, and after any sequence of
\* successful or failed switches that follows, the current provider key is a
\* key of the registry mapping; until then (initially, while the load is
\* pending, after a failed load) the key is the empty string and the mapping
\* is empty.
C18_CurrentKeyInRegistryOnceLoaded ==
    page = "providers" =>
        IF RegistryLoaded
        THEN providers.currentProvider \in DOMAIN providers.availableProviders
        ELSE providers.currentProvider = "" /\ providers.availableProviders = EmptyObject

C18_Witness ==
    /\ RegistryLoaded
    /\ \E i, j \in DOMAIN fetches :
          /\ i < j /\ IsSwitch(i) /\ IsSwitch(j)
          /\ SettledOk(i)
          /\ fetches[j].state = "settled" /\ ~(Answered(j) /\ fetches[j].resp.ok)
    /\ providers.currentProvider = "mock_failed"
    /\ providers.currentProvider \in DOMAIN providers.availableProviders

\* the most requests one invocation of fn may issue
MostRequests(fn) ==
    CASE fn = "getDashboard" -> 3
      [] fn = "createPayment" -> 2
      [] fn \in {"getAllMerchants", "updateMerchant", "getAllPayments"} -> 1

SingleAttemptOps ==
    {"getDashboard", "createPayment", "getAllMerchants", "updateMerchant", "getAllPayments"}

\* C19: apart from createMerchant's fallback nothing is asked twice: an
\* invocation of getDashboard issues at most 3 requests, createPayment at
\* most 2, getAllMerchants, updateMerchant and getAllPayments at most 1, all
\* of them different, and a failed request (404 and connection refused
\* included) is the invocation's last; on the Providers page one mount
\* issues one registry read, one click one switch, and a fetch that settles
\* is never followed by another from the same handler.
C19_NoRetryBeyondFallback ==
    /\ [](call.fn \in SingleAttemptOps =>
            /\ Len(requests) <= MostRequests(call.fn)
            /\ \A i, j \in DOMAIN requests : i # j => requests[i].req # requests[j].req
            /\ \A i \in DOMAIN requests :
                  Failed(i) => i = Len(requests) /\ Finished /\ outcome.kind = "thrown")
    /\ [][/\ Len(fetches') \in {Len(fetches), Len(fetches) + 1}
          /\ Len(fetches') = Len(fetches) + 1 =>
                /\ SubSeq(fetches', 1, Len(fetches)) = fetches
                /\ \/ /\ fetches'[Len(fetches')].op = "loadProvider"
                      /\ providers.useEffect = "pending" /\ providers'.useEffect = "ran"
                   \/ /\ fetches'[Len(fetches')].op = "handleProviderChange"
                      /\ ~providers.loading /\ providers'.loading
          /\ \A i \in DOMAIN fetches : Settles(i) => Len(fetches') = Len(fetches)]_vars

C19_Witness ==
    /\ In("getAllMerchants") /\ Finished
    /\ Len(requests) = 1 /\ Failed(1)
    /\ ErrorOf(1).code = "ECONNREFUSED"
    /\ outcome.kind = "thrown"

\* the requests of createMerchant whose failure ends the invocation: the
\* first one unless it failed with 404 or connection refused, and the second
EndsInvocation(i) ==
    In("createMerchant") => (i = 2 \/ ~RoutingError(ErrorOf(1)))

\* C20: a failed request of createMerchant (after its fallback), getDashboard,
\* getAllMerchants, updateMerchant, createPayment or getAllPayments ends the
\* invocation with that very error thrown to the caller, its HTTP status
\* and the backend's detail included; nothing is returned in its place.
C20_NoErrorSwallowed ==
    \A i \in DOMAIN requests :
        (Failed(i) /\ EndsInvocation(i)) =>
            /\ Finished
            /\ i = Len(requests)
            /\ outcome.kind = "thrown"
            /\ outcome.error = ErrorOf(i)
            /\ outcome.error.status = requests[i].resp.error.status
            /\ outcome.error.detail = requests[i].resp.error.detail

C20_Witness ==
    /\ In("getAllPayments") /\ Finished
    /\ Failed(1)
    /\ outcome = Thrown(HttpError(422, "ERR_BAD_REQUEST", "validation failed"))

-----------------------------------------------------------------------------
(* The views and their outstanding calls *)

\* the step in which handler h, awaiting its orchestrator call, resumes
Resumes(h) == caller.handler = h /\ pc = "idle" /\ caller' = NoCaller

\* the step in which handler h resumes with a rejected call
ResumesFailed(h) == Resumes(h) /\ outcome.kind = "thrown"

\* the error message a view holds, per handler
ErrorShownBy(h) ==
    CASE h = "handleSubmit" -> paymentForm.error
      [] h = "loadMerchants" -> merchantsPage.error
      [] h = "loadPayments" -> paymentsPage.error
      [] h = "handleCreateMerchant" -> merchantPanel.error
      [] h = "handleGetDashboard" -> merchantPanel.dashboardError

OrchestratedHandlers ==
    {"handleSubmit", "loadMerchants", "loadPayments", "handleCreateMerchant",
     "handleGetDashboard"}

\* the detail carried by the answer of a provider request, "" when none
FetchDetail(resp) ==
    IF resp.kind = "response" /\ ~resp.ok /\ resp.json # Null
                              /\ "detail" \in DOMAIN resp.json.v
    THEN resp.json.v.detail
    ELSE ""

\* C21: whenever a failed request carries a backend detail, the error
\* message held by the calling view (payment form, payments list, merchants
\* list, merchant panel, provider control) is that detail, unmodified.
C21_DetailReachesEveryView ==
    [][/\ \A h \in OrchestratedHandlers :
             (ResumesFailed(h) /\ outcome.error.detail # "") =>
                 ErrorShownBy(h)' = JsString(outcome.error.detail)
       /\ \A i \in DOMAIN fetches :
             (Settles(i) /\ FetchDetail(fetches'[i].resp) # "") =>
                 providers'.error = JsString(FetchDetail(fetches'[i].resp))]_vars

\* the step in which a view or a script starts an invocation
StartsInvocation ==
    \/ started' # started
    \/ submits' # submits
    \/ page = "api" /\ pc = "idle" /\ pc' # "idle"

\* the local variables that hold a response or a part of one
ResponseLocals == {"dashboardResponse", "merchantInfo", "merchantId", "merchantResponse"}

\* what an invocation returns, computed from the responses in its own log
ResultOfResponses ==
    IF In("getDashboard")
    THEN DashboardView(requests[2].resp, requests[3].resp, requests[1].resp)
    ELSE DataOf(Len(requests))

\* C22: nothing is kept between invocations: every invocation starts with
\* an empty result and one request of its own, not yet answered; a finished
\* getDashboard has issued its three requests with the credential it was
\* called with, and what any operation returns or throws is made of the
\* responses of that invocation's own requests only.
C22_EveryInvocationFetchesAnew ==
    /\ [][StartsInvocation =>
            /\ pc' # "idle"
            /\ Len(requests') = 1
            /\ requests'[1].state = "pending"
            /\ outcome' = Pending
            /\ DOMAIN locals' \cap ResponseLocals = {}]_vars
    /\ [](outcome.kind = "returned" =>
            /\ \A i \in DOMAIN requests : Succeeded(i) \/ In("createMerchant")
            /\ outcome.value = ResultOfResponses
            /\ In("getDashboard") =>
                  /\ Len(requests) = 3
                  /\ ApiKeyOf(requests[1].req) = call.apiKey
                  /\ ApiKeyOf(requests[2].req) = call.apiKey)
    /\ [](outcome.kind = "thrown" => outcome.error = ErrorOf(Len(requests)))

\* the panel shows the view of an earlier getDashboard while a second one
\* for the same credential has returned a different view
C22_Witness ==
    /\ page = "merchant-panel"
    /\ merchantPanel.dashboardData # Null
    /\ caller.handler = "handleGetDashboard"
    /\ In("getDashboard") /\ Finished /\ outcome.kind = "returned"
    /\ call.apiKey = "key-A"
    /\ merchantPanel.dashboardData.v.merchant = Owner("key-A")
    /\ Len(requests) = 3
    /\ merchantPanel.dashboardData.v # outcome.value

\* a call of handler h that is awaited while a later call of h has been started
Superseded(h) == caller.handler = h /\ caller.n < started

\* C23: a listing that settles after a later listing has been requested (the
\* date range was changed, or a reload asked for, in the meantime) leaves
\* the displayed payments as they are; only the response to the most
\* recently issued request is displayed.
C23_StaleListingIgnored ==
    [][(Resumes("loadPayments") /\ Superseded("loadPayments")) =>
            paymentsPage'.payments = paymentsPage.payments]_vars

\* the invocations started by the views and not yet consumed by their
\* handlers: the active one and the suspended ones
Outstanding == {c \in {Active} \cup {parked[i] : i \in DOMAIN parked} : c.caller # NoCaller}

\* the outstanding invocations of handler h
OutstandingOf(h) == {c \in Outstanding : c.caller.handler = h}

\* C24: while a createPayment started by the form is outstanding the form's
\* loading flag is set and its submit control disabled, so the form has at
\* most one createPayment in flight; the same holds for createMerchant and
\* for getDashboard in the merchant panel, each with its own flag.
C24_OneCallInFlightPerForm ==
    /\ \A h \in {"handleSubmit", "handleCreateMerchant", "handleGetDashboard"} :
          Cardinality(OutstandingOf(h)) <= 1
    /\ \A c \in OutstandingOf("handleSubmit") :
          c.call.fn = "createPayment" /\ paymentForm.loading /\ ~SubmitEnabled(paymentForm)
    /\ \A c \in OutstandingOf("handleCreateMerchant") :
          c.call.fn = "createMerchant" /\ merchantPanel.loading
                                       /\ ~CreateEnabled(merchantPanel)
    /\ \A c \in OutstandingOf("handleGetDashboard") :
          c.call.fn = "getDashboard" /\ merchantPanel.dashboardLoading
                                     /\ ~DashboardEnabled(merchantPanel)

\* the panel with a createMerchant and a getDashboard outstanding together
C24_Witness ==
    /\ Cardinality(OutstandingOf("handleCreateMerchant")) = 1
    /\ Cardinality(OutstandingOf("handleGetDashboard")) = 1
    /\ merchantPanel.loading /\ merchantPanel.dashboardLoading
    /\ merchantPanel.merchantName # "" /\ merchantPanel.dashboardApiKey # ""

\* the step in which the page issues a switch request
IssuesSwitch ==
    /\ Len(fetches') = Len(fetches) + 1
    /\ fetches'[Len(fetches')].op = "handleProviderChange"

\* the registry load of the page as mounted now: the last load issued
LastLoad == CHOOSE i \in DOMAIN fetches : IsLoad(i) /\ \A j \in DOMAIN fetches : IsLoad(j) => j <= i

\* C25: a switch is issued only after the page's GET /api/v1/provider has
\* completed successfully, and only for a key of the registry that load
\* returned; no switch is in flight together with a registry load; and after
\* a load that failed no switch is issued (until the page is loaded anew).
C25_SwitchOnlyAfterLoad ==
    /\ [][IssuesSwitch =>
            /\ RegistryLoaded
            /\ \A i \in DOMAIN fetches : IsLoad(i) => ~InFlight(i)
            /\ providers.availableProviders =
                  fetches[LastLoad].resp.json.v.available_providers
            /\ fetches'[Len(fetches')].body.provider \in
                  DOMAIN fetches[LastLoad].resp.json.v.available_providers]_vars
    /\ [](\A i, j \in DOMAIN fetches :
             (IsLoad(i) /\ IsSwitch(j)) => ~(InFlight(i) /\ InFlight(j)))
    /\ [](\A i, j \in DOMAIN fetches :
             (IsLoad(i) /\ fetches[i].state = "settled" /\ ~SettledOk(i)
                        /\ IsSwitch(j) /\ i < j) =>
                 \E k \in DOMAIN fetches : IsLoad(k) /\ i < k /\ k < j /\ SettledOk(k))

\* a first load failed, the page was loaded anew, and a switch is in flight
C25_Witness ==
    /\ Len(fetches) >= 3
    /\ IsLoad(1) /\ fetches[1].state = "settled" /\ ~SettledOk(1)
    /\ IsLoad(2) /\ SettledOk(2)
    /\ IsSwitch(3) /\ InFlight(3)
    /\ fetches[3].body.provider \in DOMAIN providers.availableProviders

\* C26: on the payments page the loading flag is set in every state in which
\* at least one listing started by the page is still outstanding, also when
\* a change of dates has started a second listing before the first settled.
C26_LoadingWhileListingInFlight ==
    OutstandingOf("loadPayments") # {} => paymentsPage.loading

\* C27: the payment form never shows an error together with a payment
\* result: both are cleared when a submission starts and stay cleared while
\* it is awaited, and once it has settled exactly one of the two is set,
\* also when handling the returned payment (reading requires_action, building
\* or opening the challenge URL) fails.
C27_ErrorExcludesResult ==
    /\ ~(paymentForm.error # Null /\ paymentForm.paymentResult # Null)
    /\ paymentForm.handleSubmit = "awaiting" =>
          (paymentForm.error = Null /\ paymentForm.paymentResult = Null)
    /\ (paymentForm.handleSubmit = "idle" /\ submits >= 1) =>
          (paymentForm.error # Null) # (paymentForm.paymentResult # Null)

\* the fields of the panel other than those in `except` keep their values
PanelKeeps(except) ==
    \A f \in DOMAIN merchantPanel \ except : merchantPanel'[f] = merchantPanel[f]

\* C28: in the merchant panel a failed getDashboard sets dashboardError and
\* leaves dashboardData (and every field but its own flag) as it was; a
\* failed createMerchant sets error and leaves createdMerchant, the form
\* fields and the dashboard credential field as they were; a createMerchant
\* that returns at least one credential puts the first into the dashboard
\* credential field, one that returns none leaves that field alone.
C28_PanelFailureFrame ==
    [][/\ ResumesFailed("handleGetDashboard") =>
             /\ merchantPanel'.dashboardError # Null
             /\ merchantPanel'.dashboardData = merchantPanel.dashboardData
             /\ PanelKeeps({"dashboardError", "dashboardLoading"})
       /\ ResumesFailed("handleCreateMerchant") =>
             /\ merchantPanel'.error # Null
             /\ merchantPanel'.createdMerchant = merchantPanel.createdMerchant
             /\ merchantPanel'.merchantName = merchantPanel.merchantName
             /\ merchantPanel'.createLogoUrl = merchantPanel.createLogoUrl
             /\ merchantPanel'.dashboardApiKey = merchantPanel.dashboardApiKey
             /\ PanelKeeps({"error", "loading"})
       /\ (Resumes("handleCreateMerchant") /\ outcome.kind = "returned") =>
             /\ merchantPanel'.createdMerchant = JsObject(outcome.value)
             /\ merchantPanel'.dashboardApiKey =
                   IF Len(outcome.value.api_keys) >= 1
                   THEN outcome.value.api_keys[1]
                   ELSE merchantPanel.dashboardApiKey]_vars

\* a creation has failed after an earlier one had succeeded and filled the
\* dashboard credential field; the merchant created first is still shown
C28_Witness ==
    /\ page = "merchant-panel"
    /\ merchantPanel.error # Null /\ ~merchantPanel.loading
    /\ merchantPanel.createdMerchant # Null
    /\ merchantPanel.merchantName = "Demo Shop"
    /\ merchantPanel.dashboardApiKey = "key-new"

\* the successful switch whose indicator the page shows: the last one
LastSuccessfulSwitch ==
    CHOOSE i \in DOMAIN fetches :
        /\ IsSwitch(i) /\ SettledOk(i)
        /\ \A j \in DOMAIN fetches : (IsSwitch(j) /\ SettledOk(j)) => j <= i

\* the step in which the oldest delayed reset runs
TimerFires == timers # <<>> /\ timers' = Tail(timers) /\ fetches' = fetches

\* C30: while the page stays mounted, the success indicator is cleared only
\* by the start of a later switch or by the delayed reset of the switch that
\* set it: the reset left by an earlier successful switch never clears the
\* indicator of a later one; and the indicator is never shown together with
\* an error.
C30_SuccessClearedByOwnReset ==
    /\ [][(providers.success /\ ~providers'.success
                             /\ providers'.useEffect = providers.useEffect) =>
             \/ IssuesSwitch
             \/ TimerFires /\ Head(timers) = LastSuccessfulSwitch]_vars
    /\ [](providers.success => providers.error = Null)

\* C29: every view handler clears its in-flight flag once its requests have
\* settled, whether the call returned or failed: the payment form's loading,
\* the panel's loading and dashboardLoading, the merchants and the payments
\* list's loading and the provider page's loading never stay set for ever
\* (each is false again and again).
C29_FlagsEventuallyReset ==
    /\ []<>~paymentForm.loading
    /\ []<>~merchantPanel.loading
    /\ []<>~merchantPanel.dashboardLoading
    /\ []<>~merchantsPage.loading
    /\ []<>~paymentsPage.loading
    /\ []<>~providers.loading

\* the dashboard fetch has failed and its flag is cleared
C29_Witness ==
    /\ page = "merchant-panel"
    /\ merchantPanel.dashboardError # Null
    /\ ~merchantPanel.dashboardLoading
    /\ OutstandingOf("handleGetDashboard") = {}
    /\ In("getDashboard") /\ outcome.kind = "thrown"

====
